---- MODULE Spec2Model ----
(***************************************************************************)
(* Frieda: the column type/cast resolution of the code generator, and the  *)
(* query runtime (BaseDb, ModelDb) that runs on the models it generates.   *)
(*                                                                         *)
(* Two resolvers live in the repository and both are modelled:             *)
(*   - the Field class            (src/src/lib/acli/field.ts)              *)
(*   - parseFieldDefinition & co. (src/unnamed/part_001)                   *)
(*                                                                         *)
(* Strings are sequences of tokens.  A token is a single character         *)
(* (" ", "@", "(", ")", ",") or an indivisible run of word characters      *)
(* ("bigint", "A", "1", ...); two adjacent word tokens spell one longer    *)
(* word (<<"bigint","x">> is "bigintx").  A quoted literal such as 'a' is  *)
(* one non-word token.  No string contains a line terminator, so the       *)
(* regular expression atom "." matches every token.                        *)
(***************************************************************************)
EXTENDS Integers, Sequences, FiniteSets, TLC

VARIABLES
  column,           \* the ColumnRow / DatabaseColumnRow being resolved
  settings,         \* Partial<FullSettings> handed to parseFieldDefinition
  field,            \* <<>> or <<Field.toJSON() plus the other getters>>
  fieldDefinition,  \* <<>> or <<parseFieldDefinition(column, settings)>>
  db,               \* <<>> or <<the ModelDb instance>>
  request,          \* <<>> or <<[op, input]>>: the operation last invoked
  reply,            \* <<>> or <<what connOrTx.execute settled with>>
  executed,         \* the calls of connOrTx.execute made for the request
  logged,           \* the logger invocations made for the request
  outcome,          \* <<>> (pending) or <<what the operation settled with>>
  previous,         \* <<>> or <<how the operation before the request ended>>
  calls,            \* the operations started together on the instance
  cli               \* <<>> or <<the run of a command of the cli>>

genVars == <<column, settings, field, fieldDefinition>>
dbVars == <<db, request, reply, executed, logged, outcome, previous>>
pairVars == <<calls>>
cliVars == <<cli>>
vars == <<column, settings, field, fieldDefinition,
          db, request, reply, executed, logged, outcome, previous,
          calls, cli>>

(***************************************************************************)
(* Bounds                                                                  *)
(***************************************************************************)
\* number of space-separated pieces a column comment is made of
MaxChunks == 2

(***************************************************************************)
(* JavaScript values and string primitives                                 *)
(***************************************************************************)
\* typeArgument of a directive written without parentheses (r[2] undefined)
Undefined == <<"undefined">>

\* Default of a column row: a string, null, or absent
JsString(s) == [type |-> "string", value |-> s]
JsNull == [type |-> "null", value |-> ""]
JsUndefined == [type |-> "undefined", value |-> ""]

NonWordTokens == {" ", "@", "(", ")", ",", "|", "<", ">", "'a'", "'b'"}

\* \s
IsSpace(c) == c = " "

\* \w (a run of word characters)
IsWord(c) == c \notin NonWordTokens

Min(S) == CHOOSE x \in S : \A y \in S : x <= y
Max(S) == CHOOSE x \in S : \A y \in S : x >= y

\* String.prototype.toLowerCase on one token (also the effect of the i flag)
toLowerCase(c) ==
  CASE c = "Set" -> "set"
    [] c = "BIGINT" -> "bigint"
    [] c = "VIRTUAL" -> "virtual"
    [] c = "STORED" -> "stored"
    [] c = "GENERATED" -> "generated"
    [] c = "DEFAULT_GENERATED" -> "default_generated"
    [] c = "INVISIBLE" -> "invisible"
    [] OTHER -> c

\* String.prototype.trim
trim(s) ==
  LET keep == {i \in 1..Len(s) : ~IsSpace(s[i])}
  IN IF keep = {} THEN <<>> ELSE SubSeq(s, Min(keep), Max(keep))

\* \b on both sides of the token at position i
WordBoundaries(s, i) ==
  /\ (i = 1 \/ ~IsWord(s[i - 1]))
  /\ (i = Len(s) \/ ~IsWord(s[i + 1]))

\* s.split(',')
RECURSIVE split(_)
split(s) ==
  LET commas == {i \in 1..Len(s) : s[i] = ","}
  IN IF commas = {} THEN <<s>>
     ELSE <<SubSeq(s, 1, Min(commas) - 1)>>
            \o split(SubSeq(s, Min(commas) + 1, Len(s)))

\* parts.join('|')
RECURSIVE join(_)
join(parts) ==
  IF Len(parts) = 0 THEN <<>>
  ELSE IF Len(parts) = 1 THEN parts[1]
  ELSE parts[1] \o <<"|">> \o join(Tail(parts))

\* .split(',').map((s) => s.trim()).filter((s) => s.length > 0).join('|')
LiteralUnion(args) ==
  join(SelectSeq([i \in 1..Len(split(args)) |-> trim(split(args)[i])],
                 LAMBDA p : Len(p) > 0))

(***************************************************************************)
(* Constants of the program                                                *)
(***************************************************************************)
DEFAULT_JSON_FIELD_TYPE == <<"unknown">>

\* mysqlBaseType / knownMySQLType when no type name is found
NullType == "null"

\* The two type vocabularies are imported from modules that are not part of
\* the sources at hand.  Their members are the type names the resolvers
\* compare against (every compared literal must belong to the vocabulary's
\* type) and the string types the README lists.
KNOWN_MYSQL_TYPES ==
  {"bigint", "tinyint", "smallint", "mediumint", "int", "integer",
   "float", "double", "real", "decimal", "numeric", "bit",
   "datetime", "timestamp", "date", "year", "time", "json", "enum", "set",
   "char", "binary", "varchar", "varbinary", "blob", "text"}

MYSQL_TYPES == KNOWN_MYSQL_TYPES \cup {"bool", "boolean"}

AnnotationKinds == {"bigint", "enum", "set", "json"}

(***************************************************************************)
(* part_001: getParenthesizedArgs, getMatchAmong, hasColumnCommentAnnotation*)
(***************************************************************************)
\* new RegExp(`(\\s|^)${prefix}\\s*\\((.*)\\)(\\s|$)`, 'i'); match[2] or ''
\* One attempt with the (\s|^) group starting at position i.
ParenthesizedArgsAt(source, prefix, i) ==
  LET q == IF i <= Len(source) /\ IsSpace(source[i]) THEN i + 1 ELSE i
      anchored == (i <= Len(source) /\ IsSpace(source[i])) \/ i = 1
      e == q + Len(prefix) - 1
      prefixHere ==
        /\ e <= Len(source)
        /\ \A k \in 1..Len(prefix) :
             toLowerCase(source[q + k - 1]) = toLowerCase(prefix[k])
      rest == {k \in (e + 1)..Len(source) : ~IsSpace(source[k])}
      open == IF rest = {} THEN 0 ELSE Min(rest)
      closers == {k \in (open + 1)..Len(source) :
                    /\ source[k] = ")"
                    /\ (k = Len(source) \/ IsSpace(source[k + 1]))}
  IN IF anchored /\ prefixHere /\ open > 0 /\ source[open] = "("
          /\ closers # {}
     THEN [found |-> TRUE, arg |-> SubSeq(source, open + 1, Max(closers) - 1)]
     ELSE [found |-> FALSE, arg |-> <<>>]

getParenthesizedArgs(source, prefix) ==
  LET hits == {i \in 1..Len(source) :
                 ParenthesizedArgsAt(source, prefix, i).found}
  IN IF hits = {} THEN <<>>
     ELSE ParenthesizedArgsAt(source, prefix, Min(hits)).arg

\* new RegExp(`\\b(${choices.join('|')})\\b`, 'gi'); the matches, in order,
\* as positions of the matched words
getMatchAmong(source, choices) ==
  {i \in 1..Len(source) :
     toLowerCase(source[i]) \in choices /\ WordBoundaries(source, i)}

\* new RegExp(`(\\s|^)@${annotation}(\\s|\\(|$)`, 'i').test(col.Comment)
hasColumnCommentAnnotation(annotation, col) ==
  \E p \in 1..(Len(col.Comment) - 1) :
    /\ col.Comment[p] = "@"
    /\ (p = 1 \/ IsSpace(col.Comment[p - 1]))
    /\ toLowerCase(col.Comment[p + 1]) = annotation
    /\ \/ p + 1 = Len(col.Comment)
       \/ IsSpace(col.Comment[p + 2])
       \/ col.Comment[p + 2] = "("

\* getFieldKnownMySQLType: found[0].toLowerCase(), or null
getFieldKnownMySQLType(col) ==
  LET found == getMatchAmong(col.Type, KNOWN_MYSQL_TYPES)
  IN IF found # {} THEN toLowerCase(col.Type[Min(found)]) ELSE NullType

getFieldCastType(col, knownMySQLType, conf) ==
  IF knownMySQLType = NullType THEN "string"
  ELSE IF knownMySQLType = "json" THEN "json"
  ELSE IF knownMySQLType = "bigint" THEN
    IF conf.typeBigIntAsString = "false" THEN "bigint"
    ELSE IF hasColumnCommentAnnotation("bigint", col) THEN "bigint"
    ELSE "string"
  ELSE IF /\ knownMySQLType = "tinyint"
          /\ trim(getParenthesizedArgs(col.Type, <<knownMySQLType>>)) = <<"1">>
  THEN
    IF conf.typeTinyIntOneAsBoolean = "false" THEN "int" ELSE "boolean"
  ELSE IF knownMySQLType \in
            {"tinyint", "int", "integer", "smallint", "mediumint"}
  THEN "int"
  ELSE IF knownMySQLType \in {"float", "double", "real", "decimal", "numeric"}
  THEN "float"
  ELSE IF knownMySQLType \in {"date", "datetime", "timestamp"} THEN "date"
  ELSE IF knownMySQLType = "set" THEN "set"
  ELSE IF knownMySQLType = "enum" THEN "enum"
  ELSE IF knownMySQLType = "year" THEN "int"
  ELSE "string"

getFieldJavascriptType(col, castType) ==
  IF castType = "json" THEN
    IF hasColumnCommentAnnotation("json", col)
    THEN getParenthesizedArgs(col.Comment, <<"@", "json">>)
    ELSE DEFAULT_JSON_FIELD_TYPE
  ELSE IF castType = "set" THEN
    LET strings == LiteralUnion(getParenthesizedArgs(col.Type, <<"set">>))
    IN IF Len(strings) > 0 THEN <<"Set", "<">> \o strings \o <<">">>
       ELSE <<"Set", "<", "string", ">">>
  ELSE IF castType = "enum" THEN
    LET strings == LiteralUnion(getParenthesizedArgs(col.Type, <<"enum">>))
    IN IF Len(strings) > 0 THEN strings ELSE <<"string">>
  ELSE IF castType = "bigint" THEN <<"bigint">>
  ELSE IF castType = "date" THEN <<"Date">>
  ELSE IF castType = "boolean" THEN <<"boolean">>
  ELSE IF castType \in {"int", "float"} THEN <<"number">>
  ELSE <<"string">>

\* /\bWORD\b/i.test(extra)
HasWord(extra, word) ==
  \E i \in 1..Len(extra) :
    toLowerCase(extra[i]) = word /\ WordBoundaries(extra, i)

\* /\b(VIRTUAL|STORED) GENERATED\b/i.test(extra)
HasGeneratedAlways(extra) ==
  \E i \in 1..(Len(extra) - 2) :
    /\ toLowerCase(extra[i]) \in {"virtual", "stored"}
    /\ (i = 1 \/ ~IsWord(extra[i - 1]))
    /\ IsSpace(extra[i + 1])
    /\ toLowerCase(extra[i + 2]) = "generated"
    /\ (i + 2 = Len(extra) \/ ~IsWord(extra[i + 3]))

\* _.camelCase / camelcase on the column names of the model
camelCase(name) ==
  CASE name = "user_id" -> "userId"
    [] name = "created_at" -> "createdAt"
    [] OTHER -> name

\* parseFieldDefinition whose update view forgets the generated columns
parseFieldDefinition_UpdateKeepsGenerated(col, conf) ==
  LET knownMySQLType == getFieldKnownMySQLType(col)
      castType == getFieldCastType(col, knownMySQLType, conf)
      isPrimaryKey == col.Key = "PRI"
      isAutoIncrement == HasWord(col.Extra, "auto_increment")
      isAlwaysGenerated == HasGeneratedAlways(col.Extra)
      isInvisible == HasWord(col.Extra, "invisible")
      isNullable == col.Null = "YES"
      hasDefault == \/ col.Default.type = "string"
                    \/ (isNullable /\ col.Default = JsNull)
  IN [fieldName |-> camelCase(col.Field),
      columnName |-> col.Field,
      columnType |-> col.Type,
      columnComment |-> col.Comment,
      columnDefault |-> col.Default,
      columnExtra |-> col.Extra,
      columnKey |-> col.Key,
      columnNull |-> col.Null,
      knownMySQLType |-> knownMySQLType,
      castType |-> castType,
      javascriptType |-> getFieldJavascriptType(col, castType),
      isPrimaryKey |-> isPrimaryKey,
      isAutoIncrement |-> isAutoIncrement,
      isAlwaysGenerated |-> isAlwaysGenerated,
      isDefaultGenerated |-> HasWord(col.Extra, "default_generated"),
      isInvisible |-> isInvisible,
      isNullable |-> isNullable,
      isUnique |-> col.Key = "UNI",
      hasDefault |-> hasDefault,
      isOmittableInModel |-> isInvisible,
      isOmittedFromCreateData |-> isAlwaysGenerated,
      isOptionalInCreateData |-> isAutoIncrement \/ hasDefault,
      isOmittedFromUpdateData |-> isPrimaryKey]

parseFieldDefinition(col, conf) ==
  LET knownMySQLType == getFieldKnownMySQLType(col)
      castType == getFieldCastType(col, knownMySQLType, conf)
      isPrimaryKey == col.Key = "PRI"
      isAutoIncrement == HasWord(col.Extra, "auto_increment")
      isAlwaysGenerated == HasGeneratedAlways(col.Extra)
      isInvisible == HasWord(col.Extra, "invisible")
      isNullable == col.Null = "YES"
      hasDefault == \/ col.Default.type = "string"
                    \/ (isNullable /\ col.Default = JsNull)
  IN [fieldName |-> camelCase(col.Field),
      columnName |-> col.Field,
      columnType |-> col.Type,
      columnComment |-> col.Comment,
      columnDefault |-> col.Default,
      columnExtra |-> col.Extra,
      columnKey |-> col.Key,
      columnNull |-> col.Null,
      knownMySQLType |-> knownMySQLType,
      castType |-> castType,
      javascriptType |-> getFieldJavascriptType(col, castType),
      isPrimaryKey |-> isPrimaryKey,
      isAutoIncrement |-> isAutoIncrement,
      isAlwaysGenerated |-> isAlwaysGenerated,
      isDefaultGenerated |-> HasWord(col.Extra, "default_generated"),
      isInvisible |-> isInvisible,
      isNullable |-> isNullable,
      isUnique |-> col.Key = "UNI",
      hasDefault |-> hasDefault,
      isOmittableInModel |-> isInvisible,
      isOmittedFromCreateData |-> isAlwaysGenerated,
      isOptionalInCreateData |-> isAutoIncrement \/ hasDefault,
      isOmittedFromUpdateData |-> isPrimaryKey \/ isAlwaysGenerated]

(***************************************************************************)
(* field.ts: the Field class                                               *)
(***************************************************************************)
Field_isPrimaryKey(col) == col.Key = "PRI"
Field_isAutoIncrement(col) == HasWord(col.Extra, "auto_increment")
Field_isUnique(col) == col.Key = "UNI"
Field_isNullable(col) == col.Null = "YES"

\* hasDefault that forgets the isNullable test
Field_hasDefault_AnyNull(col) ==
  \/ col.Default.type = "string"
  \/ col.Default = JsNull

Field_hasDefault(col) ==
  \/ col.Default.type = "string"
  \/ (Field_isNullable(col) /\ col.Default = JsNull)

Field_defaultValue(col) ==
  IF Field_hasDefault(col) THEN col.Default ELSE JsUndefined

Field_isGeneratedAlways(col) == HasGeneratedAlways(col.Extra)
Field_isInvisible(col) == HasWord(col.Extra, "invisible")

\* match[0].toLowerCase() of column.Type.match(/\b(MYSQL_TYPES)\b/gi), or null
Field_mysqlBaseType(col) ==
  LET match == getMatchAmong(col.Type, MYSQL_TYPES)
  IN IF match # {} THEN toLowerCase(col.Type[Min(match)]) ELSE NullType

\* One attempt of /(?:^|\s+)@(bigint|enum|set|json)(?:\((.*)\))?/gi with the
\* match starting at position i.  The optional group is greedy: (.*) runs to
\* the last ")" of the comment.
AnnotationAt(s, i) ==
  LET spaces == {j \in i..Len(s) : \A k \in i..j : IsSpace(s[k])}
      p == IF i = 1 /\ Len(s) >= 1 /\ s[1] = "@" THEN 1
           ELSE IF spaces # {} THEN Max(spaces) + 1
           ELSE 0
      ok == /\ p > 0
            /\ p + 1 <= Len(s)
            /\ s[p] = "@"
            /\ toLowerCase(s[p + 1]) \in AnnotationKinds
      closers == {k \in (p + 3)..Len(s) : s[k] = ")"}
      withArg == ok /\ p + 2 <= Len(s) /\ s[p + 2] = "(" /\ closers # {}
      end == IF withArg THEN Max(closers) ELSE p + 1
  IN [found |-> ok,
      end |-> end,
      annotation |->
        IF ok
        THEN [fullAnnotation |-> trim(SubSeq(s, i, end)),
              annotation |-> toLowerCase(s[p + 1]),
              typeArgument |->
                IF withArg THEN SubSeq(s, p + 3, Max(closers) - 1)
                ELSE Undefined]
        ELSE [fullAnnotation |-> <<>>, annotation |-> "",
              typeArgument |-> Undefined]]

\* Array.from(comment.matchAll(rx)) continued from position from
RECURSIVE matchAll(_, _)
matchAll(s, from) ==
  LET hits == {i \in from..Len(s) : AnnotationAt(s, i).found}
  IN IF hits = {} THEN <<>>
     ELSE LET m == AnnotationAt(s, Min(hits))
          IN <<m.annotation>> \o matchAll(s, m.end + 1)

Field_typeAnnotations(col) == matchAll(col.Comment, 1)

\* Array.prototype.find: <<first element satisfying the test>> or <<>>
find(arr, kind) ==
  LET is == {i \in 1..Len(arr) : arr[i].annotation = kind}
  IN IF is = {} THEN <<>> ELSE <<arr[Min(is)]>>

Field_bigIntAnnotation(col) == find(Field_typeAnnotations(col), "bigint")

Field_setAnnotation(col) == find(Field_typeAnnotations(col), "set")

\* !typeArgument || typeArgument.trim().length === 0
NoTypeArgument(a) ==
  \/ a.typeArgument = Undefined
  \/ Len(a.typeArgument) = 0
  \/ Len(trim(a.typeArgument)) = 0

Field_enumAnnotation(col) ==
  LET typeAnnotation == find(Field_typeAnnotations(col), "enum")
  IN IF typeAnnotation = <<>> \/ NoTypeArgument(typeAnnotation[1]) THEN <<>>
     ELSE typeAnnotation

Field_jsonAnnotation(col) ==
  LET typeAnnotation == find(Field_typeAnnotations(col), "json")
  IN IF typeAnnotation = <<>> \/ NoTypeArgument(typeAnnotation[1]) THEN <<>>
     ELSE typeAnnotation

Field_isTinyIntOne(col) ==
  /\ Field_mysqlBaseType(col) = "tinyint"
  /\ trim(getParenthesizedArgs(col.Type, <<"tinyint">>)) = <<"1">>

\* castType that forgets year among the integer types
Field_castType_NoYear(col) ==
  LET mysqlBaseType == Field_mysqlBaseType(col)
  IN IF mysqlBaseType = "json" THEN "json"
     ELSE IF mysqlBaseType = "bigint" THEN
       IF Field_bigIntAnnotation(col) # <<>> THEN "bigint" ELSE "string"
     ELSE IF Field_isTinyIntOne(col) THEN "boolean"
     ELSE IF mysqlBaseType \in {"bool", "boolean"} THEN "boolean"
     ELSE IF mysqlBaseType = "set" THEN
       IF Field_setAnnotation(col) # <<>> THEN "set" ELSE "string"
     ELSE IF mysqlBaseType = "enum" THEN "string"
     ELSE IF mysqlBaseType \in
               {"tinyint", "int", "integer", "smallint", "mediumint"}
     THEN "int"
     ELSE IF mysqlBaseType \in
               {"float", "double", "decimal", "numeric", "real"}
     THEN "float"
     ELSE IF mysqlBaseType \in {"date", "datetime", "timestamp"} THEN "date"
     ELSE "string"

Field_castType(col) ==
  LET mysqlBaseType == Field_mysqlBaseType(col)
  IN IF mysqlBaseType = "json" THEN "json"
     ELSE IF mysqlBaseType = "bigint" THEN
       IF Field_bigIntAnnotation(col) # <<>> THEN "bigint" ELSE "string"
     ELSE IF Field_isTinyIntOne(col) THEN "boolean"
     ELSE IF mysqlBaseType \in {"bool", "boolean"} THEN "boolean"
     ELSE IF mysqlBaseType = "set" THEN
       IF Field_setAnnotation(col) # <<>> THEN "set" ELSE "string"
     ELSE IF mysqlBaseType = "enum" THEN "string"
     ELSE IF mysqlBaseType \in
               {"tinyint", "int", "integer", "smallint", "mediumint", "year"}
     THEN "int"
     ELSE IF mysqlBaseType \in
               {"float", "double", "decimal", "numeric", "real"}
     THEN "float"
     ELSE IF mysqlBaseType \in {"date", "datetime", "timestamp"} THEN "date"
     ELSE "string"

Field_javascriptType(col) ==
  LET castType == Field_castType(col)
      setAnnotation == Field_setAnnotation(col)
  IN IF castType = "json" THEN
       IF Field_jsonAnnotation(col) # <<>>
       THEN trim(Field_jsonAnnotation(col)[1].typeArgument)
       ELSE DEFAULT_JSON_FIELD_TYPE
     ELSE IF castType = "set" THEN
       IF setAnnotation # <<>> /\ ~NoTypeArgument(setAnnotation[1])
       THEN <<"Set", "<">> \o trim(setAnnotation[1].typeArgument) \o <<">">>
       ELSE LET strings ==
                  LiteralUnion(getParenthesizedArgs(col.Type, <<"set">>))
            IN IF Len(strings) > 0 THEN <<"Set", "<">> \o strings \o <<">">>
               ELSE <<"Set", "<", "string", ">">>
     ELSE IF Field_mysqlBaseType(col) = "enum" THEN
       IF Field_enumAnnotation(col) # <<>>
       THEN Field_enumAnnotation(col)[1].typeArgument
       ELSE LET strings ==
                  LiteralUnion(getParenthesizedArgs(col.Type, <<"enum">>))
            IN IF Len(strings) > 0 THEN strings ELSE <<"string">>
     ELSE IF castType = "bigint" THEN <<"bigint">>
     ELSE IF castType = "boolean" THEN <<"boolean">>
     ELSE IF castType = "date" THEN <<"Date">>
     ELSE IF castType \in {"float", "int"} THEN <<"number">>
     ELSE <<"string">>

\* toJSON(), extended with the getters toJSON leaves out
Field_toJSON(col) ==
  [column |-> col,
   columnName |-> col.Field,
   fieldName |-> camelCase(col.Field),
   isAutoIncrement |-> Field_isAutoIncrement(col),
   isPrimaryKey |-> Field_isPrimaryKey(col),
   castType |-> Field_castType(col),
   mysqlBaseType |-> Field_mysqlBaseType(col),
   hasDefault |-> Field_hasDefault(col),
   isUnique |-> Field_isUnique(col),
   isNullable |-> Field_isNullable(col),
   defaultValue |-> Field_defaultValue(col),
   isGeneratedAlways |-> Field_isGeneratedAlways(col),
   isInvisible |-> Field_isInvisible(col),
   typeAnnotations |-> Field_typeAnnotations(col),
   javascriptType |-> Field_javascriptType(col)]

(***************************************************************************)
(* Inputs: the rows SHOW FULL COLUMNS can return and the settings          *)
(***************************************************************************)
TypeStrings ==
  {<<"tinyint", "(", "1", ")">>,
   <<"tinyint", "(", "1", ")", " ", "unsigned">>,
   <<"tinyint", "(", "2", ")">>,
   <<"tinyint">>,
   <<"tinyint", " ", "unsigned">>,
   <<"smallint">>, <<"mediumint">>, <<"int">>, <<"int", " ", "unsigned">>,
   <<"integer">>, <<"year">>,
   <<"bigint">>, <<"bigint", " ", "unsigned">>,
   <<"float">>, <<"double">>, <<"real">>, <<"numeric">>,
   <<"decimal", "(", "10", ",", "2", ")">>,
   <<"date">>, <<"datetime">>, <<"timestamp">>,
   <<"json">>,
   <<"set", "(", "'a'", ",", "'b'", ")">>,
   <<"enum", "(", "'a'", ",", "'b'", ")">>,
   <<"char", "(", "2", ")">>, <<"varchar", "(", "10", ")">>,
   <<"binary", "(", "2", ")">>, <<"varbinary", "(", "10", ")">>,
   <<"blob">>, <<"text">>, <<"time">>, <<"bit", "(", "1", ")">>,
   <<"bool">>, <<"boolean">>,
   <<"geometry">>, <<"point">>}

\* column types whose resolution reads the comment
AnnotatedTypeStrings ==
  {<<"bigint", " ", "unsigned">>,
   <<"json">>,
   <<"set", "(", "'a'", ",", "'b'", ")">>,
   <<"enum", "(", "'a'", ",", "'b'", ")">>,
   <<"tinyint", "(", "1", ")">>,
   <<"int">>}

\* the pieces a comment is written from
CommentChunks ==
  {<<"@", "bigint">>,
   <<"@", "bigint", "x">>,
   <<"@", "json">>,
   <<"@", "json", "(", "A", ")">>,
   <<"@", "json", "(", "B", ")">>,
   <<"@", "json", "(", ")">>,
   <<"@", "json", "(", " ", ")">>,
   <<"@", "set">>,
   <<"@", "Set", "(", "B", ")">>,
   <<"@", "set", "(", "Foo">>,
   <<"@", "enum", "(", "A", ")">>,
   <<"note">>}

\* chunks joined by single spaces
RECURSIVE JoinChunks(_)
JoinChunks(chunks) ==
  IF Len(chunks) = 0 THEN <<>>
  ELSE IF Len(chunks) = 1 THEN chunks[1]
  ELSE chunks[1] \o <<" ">> \o JoinChunks(Tail(chunks))

ChunkLists == UNION {[1..n -> CommentChunks] : n \in 0..MaxChunks}

Comments == {JoinChunks(cs) : cs \in ChunkLists}

ExtraStrings ==
  {<<>>,
   <<"auto_increment">>,
   <<"VIRTUAL", " ", "GENERATED">>,
   <<"STORED", " ", "GENERATED">>,
   <<"DEFAULT_GENERATED">>,
   <<"INVISIBLE">>,
   <<"DEFAULT_GENERATED", " ", "on", " ", "update", " ",
     "CURRENT_TIMESTAMP">>}

Defaults == {JsUndefined, JsNull, JsString(""), JsString("0")}

ColumnRow(name, type, null, key, default, extra, comment) ==
  [Field |-> name, Type |-> type, Null |-> null, Key |-> key,
   Default |-> default, Extra |-> extra, Comment |-> comment]

Columns ==
  {ColumnRow("id", t, "NO", "", JsUndefined, <<>>, <<>>) : t \in TypeStrings}
  \cup
  {ColumnRow("id", t, "NO", "", JsUndefined, <<>>, c) :
     t \in AnnotatedTypeStrings, c \in Comments}
  \cup
  {ColumnRow(n, <<"int">>, nl, k, d, e, <<>>) :
     n \in {"id", "user_id"}, nl \in {"YES", "NO"}, k \in {"", "PRI", "UNI"},
     d \in Defaults, e \in ExtraStrings}

SettingsValues == {"true", "false", "undefined"}

Settings ==
  [typeBigIntAsString : SettingsValues,
   typeTinyIntOneAsBoolean : SettingsValues]

(***************************************************************************)
(* The state machine: one column row is resolved by both resolvers         *)
(***************************************************************************)
Init ==
  /\ column \in Columns
  /\ settings \in Settings
  /\ field = <<>>
  /\ fieldDefinition = <<>>
  /\ db = <<>>
  /\ request = <<>>
  /\ reply = <<>>
  /\ executed = <<>>
  /\ logged = <<>>
  /\ outcome = <<>>
  /\ previous = <<>>
  /\ calls = <<>>
  /\ cli = <<>>

\* new Field(column) and a read of its getters
NewField ==
  /\ field = <<>>
  /\ field' = <<Field_toJSON(column)>>
  /\ UNCHANGED <<column, settings, fieldDefinition, dbVars, pairVars, cliVars>>

\* parseModelDefinition's table.columns.map((col) => parseFieldDefinition(..))
ParseFieldDefinition ==
  /\ fieldDefinition = <<>>
  /\ fieldDefinition' = <<parseFieldDefinition(column, settings)>>
  /\ UNCHANGED <<column, settings, field, dbVars, pairVars, cliVars>>

Next ==
  \/ NewField
  \/ ParseFieldDefinition

Spec == Init /\ [][Next]_vars

(***************************************************************************)
(* The directive grammar of the specification (AnnotationParser, 4.1):     *)
(* "@kind" or "@kind(argument)", preceded by the start of the comment or   *)
(* by whitespace; the argument ends at the first following ")".  A kind    *)
(* glued to further word characters, or an argument that is never closed,  *)
(* is malformed and is no directive.                                       *)
(***************************************************************************)
\* a directive starts at p: "@" after the start or whitespace, then a kind
DirectiveStart(s, p) ==
  /\ p + 1 <= Len(s)
  /\ s[p] = "@"
  /\ (p = 1 \/ IsSpace(s[p - 1]))
  /\ toLowerCase(s[p + 1]) \in AnnotationKinds

\* position of the ")" that closes the argument opened at p + 2, 0 if none
FirstClose(s, p) ==
  LET closers == {k \in (p + 3)..Len(s) : s[k] = ")"}
  IN IF closers = {} THEN 0 ELSE Min(closers)

\* the directives of the comment from position from on, left to right; an
\* argument is not scanned for further directives
RECURSIVE Directives(_, _)
Directives(s, from) ==
  LET starts == {p \in from..Len(s) : DirectiveStart(s, p)}
      p == Min(starts)
      bare == p + 1 = Len(s) \/ IsSpace(s[p + 2])
      closed == ~bare /\ s[p + 2] = "(" /\ FirstClose(s, p) > 0
  IN IF starts = {} THEN <<>>
     ELSE IF bare
     THEN <<[annotation |-> toLowerCase(s[p + 1]), typeArgument |-> Undefined]>>
            \o Directives(s, p + 2)
     ELSE IF closed
     THEN <<[annotation |-> toLowerCase(s[p + 1]),
             typeArgument |-> SubSeq(s, p + 3, FirstClose(s, p) - 1)]>>
            \o Directives(s, FirstClose(s, p) + 1)
     ELSE Directives(s, p + 2)

\* the directives of one kind, in order
DirectivesOf(kind, s) ==
  SelectSeq(Directives(s, 1), LAMBDA d : d.annotation = kind)

DirectivePresent(kind, s) == DirectivesOf(kind, s) # <<>>

\* the argument of the first directive of the kind
FirstArgument(kind, s) == DirectivesOf(kind, s)[1].typeArgument

\* the directive is present and carries a non-empty argument
HasArgument(kind, s) ==
  /\ DirectivePresent(kind, s)
  /\ FirstArgument(kind, s) # Undefined
  /\ trim(FirstArgument(kind, s)) # <<>>

MalformedChunks == {<<"@", "bigint", "x">>, <<"@", "set", "(", "Foo">>}

\* the sequence without its j-th element
RemoveAt(seq, j) == SubSeq(seq, 1, j - 1) \o SubSeq(seq, j + 1, Len(seq))

(***************************************************************************)
(* What the two resolvers have produced so far                             *)
(***************************************************************************)
BaseType == Field_mysqlBaseType(column)

\* width argument of a tinyint declaration, "" when there is none
TinyIntWidth == trim(getParenthesizedArgs(column.Type, <<"tinyint">>))

IsTinyIntOneColumn == BaseType = "tinyint" /\ TinyIntWidth = <<"1">>

CastKinds ==
  {field[i].castType : i \in DOMAIN field}
  \cup {fieldDefinition[i].castType : i \in DOMAIN fieldDefinition}

SemanticTypes ==
  {field[i].javascriptType : i \in DOMAIN field}
  \cup {fieldDefinition[i].javascriptType : i \in DOMAIN fieldDefinition}

HasDefaults ==
  {field[i].hasDefault : i \in DOMAIN field}
  \cup {fieldDefinition[i].hasDefault : i \in DOMAIN fieldDefinition}

(***************************************************************************)
(* Claims                                                                  *)
(***************************************************************************)

\* C1: a bigint column resolves to castKind bigint exactly when
\* typeBigIntAsString is false or an @bigint directive is present, and to
\* string otherwise.
C1_BigIntCastKind ==
  BaseType = "bigint" =>
    \A k \in CastKinds :
      k = IF \/ settings.typeBigIntAsString = "false"
             \/ DirectivePresent("bigint", column.Comment)
          THEN "bigint" ELSE "string"

\* C2: a tinyint column of width exactly 1 resolves to boolean unless
\* typeTinyIntOneAsBoolean is false, then to int; every other tinyint column
\* resolves to int whatever the flag is.
C2_TinyIntCastKind ==
  BaseType = "tinyint" =>
    \A k \in CastKinds :
      k = IF TinyIntWidth = <<"1">>
               /\ settings.typeTinyIntOneAsBoolean # "false"
          THEN "boolean" ELSE "int"

\* C3: a set column resolves to castKind set if and only if the comment
\* carries an @set directive, and to string without it.
C3_SetCastKind ==
  BaseType = "set" =>
    \A k \in CastKinds :
      k = IF DirectivePresent("set", column.Comment) THEN "set" ELSE "string"

\* C4: an enum column resolves to castKind string for every comment and every
\* configuration, on every resolver path.
C4_EnumCastKind ==
  BaseType = "enum" => \A k \in CastKinds : k = "string"

\* C5: a json column resolves to castKind json, and its semanticType is the
\* argument of the @json directive when that is present and non-empty and the
\* default JSON type otherwise (bare @json, @json(), @json( ), no directive).
C5_JsonSemanticType ==
  BaseType = "json" =>
    /\ \A k \in CastKinds : k = "json"
    /\ \A t \in SemanticTypes :
         t = IF HasArgument("json", column.Comment)
             THEN FirstArgument("json", column.Comment)
             ELSE DEFAULT_JSON_FIELD_TYPE

\* the cast kind the type families give to a column that is none of json,
\* bigint, tinyint(1), set, enum
FamilyCastKind(baseType) ==
  IF baseType \in {"tinyint", "int", "integer", "smallint", "mediumint", "year"}
  THEN "int"
  ELSE IF baseType \in {"float", "double", "real", "decimal", "numeric"}
  THEN "float"
  ELSE IF baseType \in {"date", "datetime", "timestamp"} THEN "date"
  ELSE "string"

OrdinaryColumn ==
  /\ BaseType \notin {"json", "bigint", "set", "enum"}
  /\ ~IsTinyIntOneColumn

C7_FirstOccurrenceWins ==
  \A i \in DOMAIN field : \A kind \in AnnotationKinds :
    Len(DirectivesOf(kind, column.Comment)) >= 2 =>
      /\ find(field[i].typeAnnotations, kind) # <<>>
      /\ find(field[i].typeAnnotations, kind)[1].typeArgument
           = FirstArgument(kind, column.Comment)

\* C8: the argument of @kind(arg) ends at the first following ")", so
\* directives of different kinds in one comment are each recognized with
\* their own argument.
C8_ArgumentPerDirective ==
  \A k1, k2 \in AnnotationKinds :
    (/\ k1 # k2
     /\ DirectivePresent(k1, column.Comment)
     /\ DirectivePresent(k2, column.Comment)) =>
      /\ \A i \in DOMAIN field :
           /\ find(field[i].typeAnnotations, k1) # <<>>
           /\ find(field[i].typeAnnotations, k1)[1].typeArgument
                = FirstArgument(k1, column.Comment)
      /\ \A i \in DOMAIN fieldDefinition :
           (k1 = "json" /\ BaseType = "json"
              /\ HasArgument("json", column.Comment)) =>
             fieldDefinition[i].javascriptType
               = FirstArgument("json", column.Comment)

\* the j-th piece of the comment is a malformed directive: an unknown kind, or
\* an argument that no later ")" closes
Malformed(cs, j) ==
  /\ cs[j] \in MalformedChunks
  /\ \A k \in j..Len(cs) : \A n \in DOMAIN cs[k] : cs[k][n] # ")"

\* the column with the j-th piece of its comment removed
WithoutChunk(cs, j) ==
  [column EXCEPT !.Comment = JoinChunks(RemoveAt(cs, j))]

\* C9: a malformed directive (unknown kind, unterminated parenthesis) produces
\* no annotation: castKind and semanticType are those of the same column with
\* the malformed directive removed from the comment.
C9_MalformedIgnored ==
  \A cs \in ChunkLists : \A j \in DOMAIN cs :
    (JoinChunks(cs) = column.Comment /\ Malformed(cs, j)) =>
      /\ \A i \in DOMAIN field :
           /\ field[i].castType = Field_castType(WithoutChunk(cs, j))
           /\ field[i].javascriptType
                = Field_javascriptType(WithoutChunk(cs, j))
      /\ \A i \in DOMAIN fieldDefinition :
           /\ fieldDefinition[i].castType
                = parseFieldDefinition(WithoutChunk(cs, j), settings).castType
           /\ fieldDefinition[i].javascriptType
                = parseFieldDefinition(WithoutChunk(cs, j),
                                       settings).javascriptType

\* C10: hasDefault is true exactly when the default is a text value, or the
\* column is nullable and its default is null; false for a non-nullable
\* column with a null default and for every absent default.
C10_HasDefault ==
  \A h \in HasDefaults :
    h = CASE column.Default.type = "string" -> TRUE
          [] column.Default.type = "null" -> column.Null = "YES"
          [] column.Default.type = "undefined" -> FALSE

\* both resolvers have resolved a nullable column whose default is null
C10_Witness ==
  /\ field # <<>>
  /\ fieldDefinition # <<>>
  /\ column.Null = "YES"
  /\ column.Default = JsNull
  /\ field[1].hasDefault
  /\ fieldDefinition[1].hasDefault

(***************************************************************************)
(* The presence views of a field (ModelDescriptor, 3)                      *)
(***************************************************************************)
\* C11: a field is omitted from the create view iff it is generated-always,
\* optional in the create view iff it is auto-increment or has a default,
\* omitted from the update view iff it is a primary key or generated-always,
\* optional in the base-row view iff it is invisible; so every field omitted
\* from the create view is omitted from the update view.
C11_PresenceViews ==
  fieldDefinition # <<>> =>
    LET f == fieldDefinition[1]
    IN /\ f.isOmittedFromCreateData <=> HasGeneratedAlways(column.Extra)
       /\ f.isOptionalInCreateData <=> (f.isAutoIncrement \/ f.hasDefault)
       /\ f.isOmittedFromUpdateData <=>
            (column.Key = "PRI" \/ HasGeneratedAlways(column.Extra))
       /\ f.isOmittableInModel <=> HasWord(column.Extra, "invisible")
       /\ f.isOmittedFromCreateData => f.isOmittedFromUpdateData

\* a generated column that is not a primary key has been resolved: it is
\* omitted from both views
C11_Witness ==
  /\ fieldDefinition # <<>>
  /\ column.Key # "PRI"
  /\ HasGeneratedAlways(column.Extra)
  /\ fieldDefinition[1].isOmittedFromCreateData
  /\ fieldDefinition[1].isOmittedFromUpdateData


(***************************************************************************)
(* The query runtime: src/src/lib/api/db-classes.ts                        *)
(*                                                                         *)
(* A statement is a Sql object of sql-template-tag: strings holds the      *)
(* pieces of text and values the bound parameters between them.  Text is   *)
(* a sequence of tokens, as above.  An asynchronous method is an operator  *)
(* that takes what connOrTx.execute settled with (<<>> while the call is   *)
(* awaited) and gives the calls made, the loggers invoked and what the     *)
(* method settled with (<<>> while it is suspended).                       *)
(***************************************************************************)
\* own keys of a data object
MaxKeys == 2

\* rows of a result
MaxRows == 2

\* JavaScript values
JsNumber(n) == [type |-> "number", value |-> n]
JsBigInt(n) == [type |-> "bigint", value |-> n]
JsSet(members) == [type |-> "Set", value |-> members]
JsArray(elements) == [type |-> "array", value |-> elements]
\* an object with its own keys in Object.keys order: <<key, value>> pairs
JsObject(pairs) == [type |-> "object", value |-> pairs]

Error(message) == [type |-> "Error", value |-> message]
TypeError(message) == [type |-> "TypeError", value |-> message]

\* Object.keys(o)
ObjectKeys(o) == [i \in 1..Len(o.value) |-> o.value[i][1]]

\* o[k]
Get(o, k) ==
  LET at == {i \in 1..Len(o.value) : o.value[i][1] = k}
  IN IF at = {} THEN JsUndefined ELSE o.value[Min(at)][2]

\* arr.includes(k)
includes(arr, k) == \E i \in 1..Len(arr) : arr[i] = k

\* parts.join(sep)
RECURSIVE joinWith(_, _)
joinWith(parts, sep) ==
  IF Len(parts) = 0 THEN <<>>
  ELSE IF Len(parts) = 1 THEN parts[1]
  ELSE parts[1] \o sep \o joinWith(Tail(parts), sep)

Digits == <<"0", "1", "2", "3", "4", "5", "6", "7", "8", "9">>

\* String(n) of a non-negative integer
RECURSIVE NumberToString(_)
NumberToString(n) ==
  IF n < 10 THEN <<Digits[n + 1]>>
  ELSE NumberToString(n \div 10) \o <<Digits[(n % 10) + 1]>>

\* JSON.stringify(v): text, or undefined when v is undefined
RECURSIVE JSON_stringify(_)
JSON_stringify(v) ==
  CASE v.type = "undefined" -> JsUndefined
    [] v.type = "null" -> JsString(<<"null">>)
    [] v.type = "string" -> JsString(<<"\"">> \o v.value \o <<"\"">>)
    [] v.type = "number" -> JsString(NumberToString(v.value))
    [] v.type = "Set" -> JsString(<<"{", "}">>)
    [] v.type = "array" ->
         JsString(<<"[">>
                  \o joinWith([i \in 1..Len(v.value) |->
                                 JSON_stringify(v.value[i]).value], <<",">>)
                  \o <<"]">>)

(***************************************************************************)
(* sql-template-tag                                                        *)
(***************************************************************************)
IsSql(v) == "strings" \in DOMAIN v

\* new Sql(rawStrings, rawValues): a nested Sql is flattened into its parent
RECURSIVE Sql(_, _)
Sql(rawStrings, rawValues) ==
  IF Len(rawValues) = 0 THEN [strings |-> <<rawStrings[1]>>, values |-> <<>>]
  ELSE
    LET child == rawValues[1]
        rest == Sql(Tail(rawStrings), Tail(rawValues))
        n == Len(child.strings)
    IN IF ~IsSql(child)
       THEN [strings |-> <<rawStrings[1]>> \o rest.strings,
             values |-> <<child>> \o rest.values]
       ELSE IF n = 1
       THEN [strings |-> <<rawStrings[1] \o child.strings[1]
                             \o rest.strings[1]>> \o Tail(rest.strings),
             values |-> rest.values]
       ELSE [strings |-> <<rawStrings[1] \o child.strings[1]>>
                           \o SubSeq(child.strings, 2, n - 1)
                           \o <<child.strings[n] \o rest.strings[1]>>
                           \o Tail(rest.strings),
             values |-> child.values \o rest.values]

\* raw(string)
raw(string) == Sql(<<string>>, <<>>)

\* empty
empty == raw(<<>>)

\* join(values, separator) of a non-empty array
Sql_join(values, separator) ==
  Sql(<<<<>>>> \o [i \in 1..(Len(values) - 1) |-> separator] \o <<<<>>>>,
      values)

\* get sql(): the strings with a ? between them
Sql_sql(query) == joinWith(query.strings, <<"?">>)

(***************************************************************************)
(* sql-utils                                                               *)
(***************************************************************************)
\* the identifier-quote character U+0060, written <backtick> inside a name
Backtick == "<backtick>"

\* a name with every backtick doubled
escapeBackticks(name) ==
  CASE name = "no<backtick>te" -> "no<backtick><backtick>te"
    [] name = "<backtick>" -> "<backtick><backtick>"
    [] OTHER -> name

\* bt(first) / bt(first, second): quoted identifier; second is <<>> or <<s>>
bt(first, second) ==
  raw(<<Backtick, escapeBackticks(first), Backtick>>
      \o (IF Len(second) = 0 THEN <<>>
          ELSE <<".", Backtick, escapeBackticks(second[1]), Backtick>>))

\* getWhere(input, tableName): nothing, a fragment of the caller taken
\* verbatim, or the keys of a mapping compared with = and joined with AND
getWhere(input, tableName) ==
  IF IsSql(input) THEN Sql(<<<<"WHERE", " ">>, <<>>>>, <<input>>)
  ELSE IF input.type = "undefined" \/ Len(input.value) = 0 THEN empty
  ELSE
    LET keys == ObjectKeys(input)
        ands == [i \in 1..Len(keys) |->
                   Sql(<<<<>>, <<" ", "=", " ">>, <<>>>>,
                       <<bt(tableName, <<keys[i]>>), Get(input, keys[i])>>)]
    IN Sql(<<<<"WHERE", " ">>, <<>>>>,
           <<Sql_join(ands, <<" ", "AND", " ">>)>>)

\* getOrderBy(input, tableName): nothing, or the mapping field -> direction
getOrderBy(input, tableName) ==
  IF input.type = "undefined" \/ Len(input.value) = 0 THEN empty
  ELSE
    LET keys == ObjectKeys(input)
        orders == [i \in 1..Len(keys) |->
                     Sql(<<<<>>, <<" ", IF Get(input, keys[i]).value = <<"desc">>
                                        THEN "DESC" ELSE "ASC">>>>,
                         <<bt(tableName, <<keys[i]>>)>>)]
    IN Sql(<<<<"ORDER", " ", "BY", " ">>, <<>>>>,
           <<Sql_join(orders, <<",">>)>>)

\* getLimitOffset(paging): page p, rows per page r => LIMIT r OFFSET (p-1)*r
getLimitOffset(paging) ==
  IF paging.type = "undefined" THEN empty
  ELSE Sql(<<<<"LIMIT", " ">>, <<" ", "OFFSET", " ">>, <<>>>>,
           <<JsNumber(paging.rpp),
             JsNumber((paging.page - 1) * paging.rpp)>>)

\* createCastFunction(schemaCast, customModelCast): the function is known by
\* the two maps it closes over
createCastFunction(schemaCast, customModelCast) ==
  [schemaCast |-> schemaCast, customModelCast |-> customModelCast]

(***************************************************************************)
(* BaseDb                                                                  *)
(***************************************************************************)
\* what an asynchronous method has settled with
Return(v) == <<[kind |-> "return", value |-> v]>>
Throw(e) == <<[kind |-> "throw", value |-> e]>>

\* a method that settled before any call of connOrTx.execute
Settled(o) == [executed |-> <<>>, logged |-> <<>>, outcome |-> o]

\* const v = await r; ...then(v): a rejection or a suspension of r is the
\* own of the method
Await(r, then(_)) ==
  IF Len(r.outcome) = 0 \/ r.outcome[1].kind = "throw" THEN r
  ELSE [r EXCEPT !.outcome = then(r.outcome[1].value)]

\* new ExecuteError(originalError, query)
ExecuteError(originalError, query) ==
  [type |-> "ExecuteError",
   value |-> IF originalError.type = "Error" THEN originalError.value
             ELSE <<"unkown error">>,
   originalError |-> originalError,
   query |-> query]

\* what a logger given in loggingOptions throws when it throws
LoggerError == Error(<<"logger failed">>)

\* execute with the override of count kept for every call
execute_OverrideKept(self, query, customModelCast, rep) ==
  LET call == [sql |-> Sql_sql(query),
               values |-> query.values,
               options |->
                 [as |-> "object",
                  cast |-> createCastFunction(self.schema.cast,
                                              [ct |-> "bigint"])]]
      catch(error, invoked) ==
        LET e == ExecuteError(error, query)
            errorLogger == self.loggingOptions.errorLogger
        IN [executed |-> <<call>>,
            logged |-> invoked \o <<[logger |-> "errorLogger", args |-> <<e>>]>>,
            outcome |->
              IF errorLogger = "throws" THEN Throw(LoggerError)
              ELSE IF errorLogger = "rethrows" THEN Throw(e)
              ELSE Throw(Error(<<"Internal server error.">>))]
  IN IF Len(rep) = 0
     THEN [executed |-> <<call>>, logged |-> <<>>, outcome |-> <<>>]
     ELSE IF rep[1].kind = "throw" THEN catch(rep[1].value, <<>>)
     ELSE
       LET result == rep[1].value
           invoked == <<[logger |-> "performanceLogger",
                         args |-> <<result>>]>>
       IN IF self.loggingOptions.performanceLogger = "throws"
          THEN catch(LoggerError, invoked)
          ELSE [executed |-> <<call>>, logged |-> invoked,
                outcome |-> Return(result)]

\* execute with the error logger guarded: what the logger throws is dropped
\* and the generic error is raised
execute_GuardedErrorLogger(self, query, customModelCast, rep) ==
  LET call == [sql |-> Sql_sql(query),
               values |-> query.values,
               options |->
                 [as |-> "object",
                  cast |-> createCastFunction(self.schema.cast,
                                              customModelCast)]]
      catch(error, invoked) ==
        LET e == ExecuteError(error, query)
        IN [executed |-> <<call>>,
            logged |-> invoked \o <<[logger |-> "errorLogger", args |-> <<e>>]>>,
            outcome |-> Throw(Error(<<"Internal server error.">>))]
  IN IF Len(rep) = 0
     THEN [executed |-> <<call>>, logged |-> <<>>, outcome |-> <<>>]
     ELSE IF rep[1].kind = "throw" THEN catch(rep[1].value, <<>>)
     ELSE
       LET result == rep[1].value
           invoked == <<[logger |-> "performanceLogger",
                         args |-> <<result>>]>>
       IN IF self.loggingOptions.performanceLogger = "throws"
          THEN catch(LoggerError, invoked)
          ELSE [executed |-> <<call>>, logged |-> invoked,
                outcome |-> Return(result)]

\* BaseDb.execute; Date.now() is left out of the logged arguments
execute(self, query, customModelCast, rep) ==
  LET call == [sql |-> Sql_sql(query),
               values |-> query.values,
               options |->
                 [as |-> "object",
                  cast |-> createCastFunction(self.schema.cast,
                                              customModelCast)]]
      catch(error, invoked) ==
        LET e == ExecuteError(error, query)
            errorLogger == self.loggingOptions.errorLogger
        IN [executed |-> <<call>>,
            logged |-> invoked \o <<[logger |-> "errorLogger", args |-> <<e>>]>>,
            outcome |->
              IF errorLogger = "throws" THEN Throw(LoggerError)
              ELSE IF errorLogger = "rethrows" THEN Throw(e)
              ELSE Throw(Error(<<"Internal server error.">>))]
  IN IF Len(rep) = 0
     THEN [executed |-> <<call>>, logged |-> <<>>, outcome |-> <<>>]
     ELSE IF rep[1].kind = "throw" THEN catch(rep[1].value, <<>>)
     ELSE
       LET result == rep[1].value
           invoked == <<[logger |-> "performanceLogger",
                         args |-> <<result>>]>>
       IN IF self.loggingOptions.performanceLogger = "throws"
          THEN catch(LoggerError, invoked)
          ELSE [executed |-> <<call>>, logged |-> invoked,
                outcome |-> Return(result)]

\* BaseDb.executeSelect
executeSelect(self, query, customModelCast, rep) ==
  Await(execute(self, query, customModelCast, rep),
        LAMBDA executedQuery :
          Return([executedQuery |-> executedQuery,
                  rows |-> executedQuery.rows]))

\* v || null
OrNull(v) ==
  IF \/ v.type \in {"undefined", "null"}
     \/ (v.type = "string" /\ v.value = <<>>)
     \/ (v.type = "number" /\ v.value = 0)
  THEN JsNull ELSE v

\* rows[0]
First(rows) == IF Len(rows) > 0 THEN rows[1] ELSE JsUndefined

\* BaseDb.executeSelectFirst
executeSelectFirst(self, query, customModelCast, rep) ==
  Await(executeSelect(self, query, customModelCast, rep),
        LAMBDA r : Return(OrNull(First(r.rows))))

\* BaseDb.executeSelectFirstOrThrow
executeSelectFirstOrThrow(self, query, customModelCast, rep) ==
  Await(executeSelectFirst(self, query, customModelCast, rep),
        LAMBDA result :
          IF result.type = "null"
          THEN Throw(Error(<<"executeSelectFirstOrThrow failed to find a record.">>))
          ELSE Return(result))

(***************************************************************************)
(* ModelDb                                                                 *)
(***************************************************************************)
\* new ModelDb(modelName, conn, schema, loggingOptions), the model found
ModelDb(modelName, conn, schema, loggingOptions) ==
  [connOrTx |-> conn,
   schema |-> schema,
   loggingOptions |-> loggingOptions,
   model |-> SelectSeq(schema.models,
                       LAMBDA m : m.modelName = modelName)[1]]

tableName(self) == self.model.tableName

fields(self) == self.model.fields

keys(self) == [i \in 1..Len(fields(self)) |-> fields(self)[i].fieldName]

\* fields.filter(test).map((f) => f.fieldName)
FieldNames(self, test(_)) ==
  LET fs == SelectSeq(fields(self), test)
  IN [i \in 1..Len(fs) |-> fs[i].fieldName]

primaryKeys(self) == FieldNames(self, LAMBDA f : f.isPrimaryKey)

jsonKeys(self) == FieldNames(self, LAMBDA f : f.castType = "json")

setKeys(self) == FieldNames(self, LAMBDA f : f.castType = "set")

\* the name of the first auto-increment field: <<>> (null) or <<name>>
autoIncrementingPrimaryKey(self) ==
  LET names == FieldNames(self, LAMBDA f : f.isAutoIncrement)
  IN IF Len(names) = 0 THEN <<>> ELSE <<names[1]>>

\* getSelectForFieldName that selects a name without looking it up
getSelectForFieldName_Unchecked(self, fieldName) ==
  Return(Sql(<<<<>>, <<" ", "as", " ">>, <<>>>>,
             <<bt(tableName(self), <<fieldName>>), bt(fieldName, <<>>)>>))

\* getSelectForFieldName of findMany
getSelectForFieldName(self, fieldName) ==
  LET found == SelectSeq(fields(self), LAMBDA f : f.fieldName = fieldName)
  IN IF Len(found) = 0
     THEN Throw(Error(<<"Invalid select: the field named ", fieldName,
                        " does not exist.">>))
     ELSE Return(Sql(<<<<>>, <<" ", "as", " ">>, <<>>>>,
                     <<bt(tableName(self), <<found[1].columnName>>),
                       bt(found[1].fieldName, <<>>)>>))

\* join(names.map((fieldName) => getSelectForFieldName(fieldName)), ",")
selectList(self, names) ==
  LET each == [i \in 1..Len(names) |-> getSelectForFieldName(self, names[i])]
      thrown == {i \in 1..Len(names) : each[i][1].kind = "throw"}
  IN IF thrown # {} THEN each[Min(thrown)]
     ELSE Return(Sql_join([i \in 1..Len(names) |-> each[i][1].value],
                          <<",">>))

\* the indentation of the template of findMany
Indent == "        "

\* findMany that joins the selected names of any array, the empty one too
findMany_JoinsEmptySelect(self, input, rep) ==
  LET where == getWhere(input.where, tableName(self))
      orderBy == getOrderBy(input.orderBy, tableName(self))
      limit == getLimitOffset(input.paging)
      select ==
        IF input.select.type = "array" /\ Len(input.select.value) = 0
        THEN Throw(TypeError(<<"Expected ", Backtick, "join([])", Backtick,
                               " to be called with an array of multiple elements, but got an empty array">>))
        ELSE IF input.select.type = "array"
        THEN selectList(self, input.select.value)
        ELSE IF input.select.type = "string" /\ input.select.value = <<"all">>
        THEN selectList(self, keys(self))
        ELSE Return(raw(<<"*">>))
      query ==
        Sql(<<<<"\n", Indent, "SELECT", " ", "\n", Indent>>,
              <<" ", "\n", Indent, "FROM", " ", "\n", Indent>>,
              <<" ", "\n", Indent>>,
              <<" ", "\n", Indent>>,
              <<" ", "\n", Indent>>,
              <<>>>>,
            <<select[1].value, bt(tableName(self), <<>>), where, orderBy,
              limit>>)
  IN IF select[1].kind = "throw" THEN Settled(select)
     ELSE Await(executeSelect(self, query, JsUndefined, rep),
                LAMBDA r : Return(r.rows))

\* ModelDb.findMany
findMany(self, input, rep) ==
  LET where == getWhere(input.where, tableName(self))
      orderBy == getOrderBy(input.orderBy, tableName(self))
      limit == getLimitOffset(input.paging)
      select ==
        IF input.select.type = "array" /\ Len(input.select.value) > 0
        THEN selectList(self, input.select.value)
        ELSE IF input.select.type = "string" /\ input.select.value = <<"all">>
        THEN selectList(self, keys(self))
        ELSE Return(raw(<<"*">>))
      query ==
        Sql(<<<<"\n", Indent, "SELECT", " ", "\n", Indent>>,
              <<" ", "\n", Indent, "FROM", " ", "\n", Indent>>,
              <<" ", "\n", Indent>>,
              <<" ", "\n", Indent>>,
              <<" ", "\n", Indent>>,
              <<>>>>,
            <<select[1].value, bt(tableName(self), <<>>), where, orderBy,
              limit>>)
  IN IF select[1].kind = "throw" THEN Settled(select)
     ELSE Await(executeSelect(self, query, JsUndefined, rep),
                LAMBDA r : Return(r.rows))

\* paging: { page, rpp }
Paging(page, rpp) == [type |-> "object", page |-> page, rpp |-> rpp]

\* findFirst with the spread written after the paging
findFirst_InputPagingWins(self, input, rep) ==
  Await(findMany(self,
                 IF input.paging.type = "undefined"
                 THEN [input EXCEPT !.paging = Paging(1, 1)] ELSE input,
                 rep),
        LAMBDA rows : Return(OrNull(First(rows))))

\* ModelDb.findFirst
findFirst(self, input, rep) ==
  Await(findMany(self, [input EXCEPT !.paging = Paging(1, 1)], rep),
        LAMBDA rows : Return(OrNull(First(rows))))

\* findFirstOrThrow that gives the absent value instead of failing
findFirstOrThrow_NoThrow(self, input, rep) ==
  findFirst(self, input, rep)

\* ModelDb.findFirstOrThrow
findFirstOrThrow(self, input, rep) ==
  Await(findFirst(self, input, rep),
        LAMBDA result :
          IF result.type = "null"
          THEN Throw(Error(<<"findFirstOrThrow failed to find a record.">>))
          ELSE Return(result))

\* ModelDb.findUnique
findUnique(self, input, rep) == findFirst(self, input, rep)

\* ModelDb.findUniqueOrThrow
findUniqueOrThrow(self, input, rep) == findFirstOrThrow(self, input, rep)

(***************************************************************************)
(* Integers beyond 32 bits are written <<hi, lo>> for hi * Radix + lo.     *)
(***************************************************************************)
Radix == 2 ^ 27

\* Number.MAX_SAFE_INTEGER, 2^53 - 1
MAX_SAFE_INTEGER == JsNumber(<<2 ^ 26 - 1, Radix - 1>>)

\* a > b
GreaterThan(a, b) == a[1] > b[1] \/ (a[1] = b[1] /\ a[2] > b[2])

\* BigInt(n) of an integral number
BigInt(n) == JsBigInt(n.value)

\* Number(b), b < 2^54: exact up to 2^53, then the nearest even integer,
\* a tie going to the one with an even significand
Number(b) ==
  LET hi == b.value[1]
      lo == b.value[2]
      down == <<hi, lo - 1>>
      up == IF lo + 1 = Radix THEN <<hi + 1, 0>> ELSE <<hi, lo + 1>>
  IN IF ~GreaterThan(b.value, <<2 ^ 26, 0>>) \/ lo % 2 = 0 THEN JsNumber(b.value)
     ELSE IF (lo - 1) % 4 = 0 THEN JsNumber(down)
     ELSE JsNumber(up)

\* ModelDb.countBigInt
countBigInt(self, input, rep) ==
  LET where == getWhere(input.where, tableName(self))
      query == Sql(<<<<"SELECT", " ", "COUNT", "(", "*", ")", " ", "AS", " ",
                       Backtick, "ct", Backtick, " ", "FROM", " ">>,
                     <<" ">>, <<>>>>,
                   <<bt(tableName(self), <<>>), where>>)
  IN Await(executeSelect(self, query, [ct |-> "bigint"], rep),
           LAMBDA result :
             Return(IF Len(result.rows) > 0 THEN Get(result.rows[1], "ct")
                    ELSE JsBigInt(<<0, 0>>)))

\* count that also refuses the bound itself
count_ThrowsAtBound(self, input, rep) ==
  Await(countBigInt(self, input, rep),
        LAMBDA ct :
          IF ~GreaterThan(BigInt(MAX_SAFE_INTEGER).value, ct.value)
          THEN Throw(Error(<<"count returned a number greater than Number.MAX_SAFE_INTEGER">>))
          ELSE Return(Number(ct)))

\* ModelDb.count
count(self, input, rep) ==
  Await(countBigInt(self, input, rep),
        LAMBDA ct :
          IF GreaterThan(ct.value, BigInt(MAX_SAFE_INTEGER).value)
          THEN Throw(Error(<<"count returned a number greater than Number.MAX_SAFE_INTEGER">>))
          ELSE Return(Number(ct)))

\* the template that writes a string value into the text between quotes
bound_Interpolated(v) ==
  IF v.type = "string" THEN raw(<<"'">> \o v.value \o <<"'">>)
  ELSE Sql(<<<<>>, <<>>>>, <<v>>)

\* the template with nothing but ${v}
bound(v) == Sql(<<<<>>, <<>>>>, <<v>>)

\* Array.from(set.values()).join(",")
setToString(set) == JsString(joinWith(set.value, <<",">>))

\* create: the value pushed to insertValues for the key k
create_insertValue(self, data, k) ==
  IF Get(data, k).type = "null" THEN raw(<<"NULL">>)
  ELSE IF includes(jsonKeys(self), k)
  THEN bound(JSON_stringify(Get(data, k)))
  ELSE IF includes(setKeys(self), k) /\ Get(data, k).type = "Set"
  THEN bound(setToString(Get(data, k)))
  ELSE bound(Get(data, k))

\* the column list of create written from the keys of the model
create_names_AllFields(self, data) ==
  [i \in 1..Len(keys(self)) |-> bt(tableName(self), <<keys(self)[i]>>)]

\* create: names
create_names(self, data) ==
  [i \in 1..Len(ObjectKeys(data)) |->
     bt(tableName(self), <<ObjectKeys(data)[i]>>)]

\* create: insertValues
create_insertValues(self, data) ==
  [i \in 1..Len(ObjectKeys(data)) |->
     create_insertValue(self, data, ObjectKeys(data)[i])]

\* create: the statement
create_query(self, data) ==
  LET names == create_names(self, data)
      insertValues == create_insertValues(self, data)
      namesSql == IF Len(names) > 0 THEN Sql_join(names, <<",">>) ELSE empty
      valuseSql == IF Len(insertValues) > 0
                   THEN Sql_join(insertValues, <<",">>) ELSE empty
  IN Sql(<<<<"INSERT", " ", "INTO", " ">>, <<" ", "(">>,
           <<")", " ", "VALUES", " ", "(">>, <<")">>>>,
         <<bt(tableName(self), <<>>), namesSql, valuseSql>>)

\* ModelDb.create
create(self, input, rep) ==
  Await(execute(self, create_query(self, input.data), JsUndefined, rep),
        LAMBDA executedQuery :
          LET autoGeneratedPrimaryKey == autoIncrementingPrimaryKey(self)
              pks == primaryKeys(self)
          IN IF Len(autoGeneratedPrimaryKey) > 0
             THEN Return(JsObject(<<<<autoGeneratedPrimaryKey[1],
                                      executedQuery.insertId>>>>))
             ELSE Return(JsObject([i \in 1..Len(pks) |->
                                     <<pks[i], Get(input.data, pks[i])>>])))

\* the assignment of updateWhere that joins a set before it looks at json
updateWhere_update_SetFirst(self, data, k) ==
  IF Get(data, k).type = "null"
  THEN Sql(<<<<>>, <<" ", "=", " ", "NULL">>>>, <<bt(tableName(self), <<k>>)>>)
  ELSE Sql(<<<<>>, <<" ", "=", " ">>, <<>>>>,
           <<bt(tableName(self), <<k>>),
             IF Get(data, k).type = "Set" THEN setToString(Get(data, k))
             ELSE IF includes(jsonKeys(self), k)
             THEN JSON_stringify(Get(data, k))
             ELSE Get(data, k)>>)

\* updateWhere: the assignment written for the key k
updateWhere_update(self, data, k) ==
  IF Get(data, k).type = "null"
  THEN Sql(<<<<>>, <<" ", "=", " ", "NULL">>>>, <<bt(tableName(self), <<k>>)>>)
  ELSE Sql(<<<<>>, <<" ", "=", " ">>, <<>>>>,
           <<bt(tableName(self), <<k>>),
             IF includes(jsonKeys(self), k) THEN JSON_stringify(Get(data, k))
             ELSE IF includes(setKeys(self), k) /\ Get(data, k).type = "Set"
             THEN setToString(Get(data, k))
             ELSE Get(data, k)>>)

\* ModelDb.updateWhere; join(updates) of no update is a TypeError
updateWhere(self, input, rep) ==
  LET updates == [i \in 1..Len(ObjectKeys(input.data)) |->
                    updateWhere_update(self, input.data,
                                       ObjectKeys(input.data)[i])]
      where == getWhere(input.where, tableName(self))
      query == Sql(<<<<"UPDATE", " ">>, <<" ", "SET", " ">>, <<" ">>, <<>>>>,
                   <<bt(tableName(self), <<>>), Sql_join(updates, <<",">>),
                     where>>)
  IN IF Len(updates) = 0
     THEN Settled(Throw(TypeError(<<"Expected ", Backtick, "join([])", Backtick,
                                " to be called with an array of multiple elements, but got an empty array">>)))
     ELSE execute(self, query, JsUndefined, rep)

\* ModelDb.update
update(self, input, rep) == updateWhere(self, input, rep)

\* ModelDb.deleteWhere
deleteWhere(self, input, rep) ==
  LET where == getWhere(input.where, tableName(self))
      query == Sql(<<<<"DELETE", " ", "FROM", " ">>, <<" ">>, <<>>>>,
                   <<bt(tableName(self), <<>>), where>>)
  IN execute(self, query, JsUndefined, rep)

\* ModelDb.delete
delete(self, input, rep) == deleteWhere(self, input, rep)

(***************************************************************************)
(* The schema the runtime is constructed on, built by the generator        *)
(***************************************************************************)
\* _.upperFirst(_.camelCase(name)) on the table names of the schema
upperFirstCamelCase(name) ==
  CASE name = "users" -> "Users"
    [] name = "memberships" -> "Memberships"
    [] name = "events" -> "Events"
    [] name = "versions" -> "Versions"

\* parseModelDefinition; the type-name strings of the definition, which the
\* runtime does not read, are left out
parseModelDefinition(table, conf) ==
  [modelName |-> upperFirstCamelCase(table.name),
   tableName |-> table.name,
   fields |-> [i \in 1..Len(table.columns) |->
                 parseFieldDefinition(table.columns[i], conf)]]

\* settings with nothing set
NoSettings ==
  [typeBigIntAsString |-> "undefined", typeTinyIntOneAsBoolean |-> "undefined"]

\* the fetched tables: a single auto-increment primary key with a json and a
\* set column; a composite primary key; an auto-increment unique column
\* beside the primary key; a composite primary key with an auto-increment
\* part
Tables ==
  <<[name |-> "users",
     columns |->
       <<ColumnRow("id", <<"bigint", " ", "unsigned">>, "NO", "PRI",
                   JsNull, <<"auto_increment">>, <<>>),
         ColumnRow("prefs", <<"json">>, "YES", "", JsNull, <<>>, <<>>),
         ColumnRow("tags", <<"set", "(", "'a'", ",", "'b'", ")">>, "YES", "",
                   JsNull, <<>>, <<"@", "set">>)>>],
    [name |-> "memberships",
     columns |->
       <<ColumnRow("user_id", <<"int">>, "NO", "PRI", JsNull, <<>>, <<>>),
         ColumnRow("team", <<"int">>, "NO", "PRI", JsNull, <<>>, <<>>),
         ColumnRow("note", <<"varchar", "(", "10", ")">>, "YES", "", JsNull,
                   <<>>, <<>>)>>],
    [name |-> "events",
     columns |->
       <<ColumnRow("id", <<"char", "(", "2", ")">>, "NO", "PRI", JsNull,
                   <<>>, <<>>),
         ColumnRow("seq", <<"int">>, "NO", "UNI", JsNull,
                   <<"auto_increment">>, <<>>)>>],
    [name |-> "versions",
     columns |->
       <<ColumnRow("id", <<"int">>, "NO", "PRI", JsNull,
                   <<"auto_increment">>, <<>>),
         ColumnRow("rev", <<"int">>, "NO", "PRI", JsNull, <<>>, <<>>)>>]>>

\* the SchemaDefinition generated from the tables
Schema ==
  [models |-> [i \in 1..Len(Tables) |->
                 parseModelDefinition(Tables[i], NoSettings)],
   cast |-> "schema.cast"]

\* what a logger of loggingOptions does: not given, returns, throws its own
\* error, or (the error logger) throws the error it was handed
LoggingOptions ==
  [performanceLogger : {"undefined", "returns", "throws"},
   errorLogger : {"undefined", "returns"}]
  \cup
  [performanceLogger : {"undefined", "throws"},
   errorLogger : {"throws", "rethrows"}]

NoLogging == [performanceLogger |-> "undefined", errorLogger |-> "undefined"]

\* the instances: every model without loggers, one model with every logger
Instances ==
  {ModelDb(Schema.models[i].modelName, "conn", Schema, NoLogging) :
     i \in 1..Len(Schema.models)}
  \cup {ModelDb("Users", "conn", Schema, l) : l \in LoggingOptions}

(***************************************************************************)
(* The inputs of the operations                                            *)
(***************************************************************************)
\* a field name no model has
NoField == "nope"

\* where: not given, a mapping of one or two fields, a fragment of the caller
Wheres(self) ==
  {JsUndefined,
   JsObject(<<<<keys(self)[1], JsString(<<"x">>)>>>>),
   JsObject(<<<<keys(self)[2], JsString(<<"y">>)>>,
              <<keys(self)[1], JsNumber(7)>>>>),
   Sql(<<<<Backtick, "id", Backtick, " ", ">", " ">>, <<>>>>, <<JsNumber(5)>>)}

OrderBys(self) ==
  {JsUndefined, JsObject(<<<<keys(self)[1], JsString(<<"desc">>)>>>>)}

Pagings == {JsUndefined, Paging(1, 1), Paging(2, 10)}

\* select: not given, "all", no name, known names, an unknown name
Selects(self) ==
  {JsUndefined, JsString(<<"all">>), JsArray(<<>>),
   JsArray(<<keys(self)[2]>>),
   JsArray(<<keys(self)[1], NoField>>),
   JsArray(<<NoField, keys(self)[1]>>)}

\* every where, orderBy and paging with an unknown name selected, and every
\* select and paging with the where given or not
FindInputs(self) ==
  [where : Wheres(self), orderBy : OrderBys(self), paging : Pagings,
   select : {JsArray(<<keys(self)[1], NoField>>)}]
  \cup
  [where : {JsUndefined, JsObject(<<<<keys(self)[1], JsString(<<"x">>)>>>>)},
   orderBy : OrderBys(self), paging : Pagings, select : Selects(self)]

CountInputs(self) == [where : Wheres(self)]

\* the values given for a key of data; a set field is also given the empty
\* set and a set whose one member holds a comma
DataValues(self, k) ==
  {JsNull, JsString(<<"x">>)}
  \cup (IF includes(jsonKeys(self), k)
        THEN {JsArray(<<JsString(<<"a">>), JsNumber(7)>>), JsSet(<<<<"a">>>>)}
        ELSE {JsSet(<<<<"a">>, <<"b">>>>)})
  \cup (IF includes(setKeys(self), k)
        THEN {JsSet(<<>>), JsSet(<<<<"a", ",", "b">>>>)}
        ELSE {})

\* the keys of data: the fields of the model and a key that is no field
DataKeys(self) ==
  {keys(self)[i] : i \in 1..Len(keys(self))} \cup {"no<backtick>te"}

\* data: up to MaxKeys keys, each once, in any order; up to one key on the
\* instances constructed with loggers
Datas(self) ==
  LET entries == UNION {{<<k, v>> : v \in DataValues(self, k)} :
                         k \in DataKeys(self)}
      most == IF self.loggingOptions = NoLogging THEN MaxKeys ELSE 1
  IN {JsObject(d) :
        d \in {e \in UNION {[1..n -> entries] : n \in 0..most} :
                 \A i, j \in 1..Len(e) : i # j => e[i][1] # e[j][1]}}

CreateInputs(self) == [data : Datas(self)]

UpdateWhereInputs(self) ==
  [data : Datas(self),
   where : {JsUndefined, JsObject(<<<<keys(self)[1], JsString(<<"x">>)>>>>)}]

\* where: PrimaryKey
PrimaryKeyWhere(self) ==
  JsObject([i \in 1..Len(primaryKeys(self)) |->
              <<primaryKeys(self)[i], JsString(<<"k">>)>>])

UpdateInputs(self) == [data : Datas(self), where : {PrimaryKeyWhere(self)}]

DeleteWhereInputs(self) == [where : Wheres(self)]

DeleteInputs(self) == [where : {PrimaryKeyWhere(self)}]

\* statements given to execute and executeSelect as they are
ExecuteInputs ==
  [query : {Sql(<<<<"SELECT", " ", "1">>>>, <<>>),
            Sql(<<<<"SELECT", " ">>, <<>>>>, <<JsString(<<"x">>)>>)},
   customModelCast : {JsUndefined}]

(***************************************************************************)
(* The transport: what connOrTx.execute settles with                       *)
(***************************************************************************)
\* a row of a result, as the cast function left it
Row(i) == JsObject(<<<<"id", JsString(<<Digits[i + 1]>>)>>>>)

\* BigInt values around 2^53 - 1
CountValues ==
  {<<0, 0>>, <<0, 1>>,
   <<2 ^ 26 - 1, Radix - 2>>, <<2 ^ 26 - 1, Radix - 1>>,
   <<2 ^ 26, 0>>, <<2 ^ 26, 1>>, <<2 ^ 26, 3>>}

\* new ExecutedQuery
ExecutedQuery(rows, insertId) == [rows |-> rows, insertId |-> insertId]

\* the results the database gives for a statement
Results(call) ==
  IF call.sql[1] = "INSERT"
  THEN {ExecutedQuery(<<>>, JsString(<<id>>)) : id \in {"41", "42"}}
  ELSE IF call.sql[1] \in {"UPDATE", "DELETE"}
  THEN {ExecutedQuery(<<>>, JsString(<<"0">>))}
  ELSE IF includes(call.sql, "COUNT")
  THEN {ExecutedQuery(<<>>, JsString(<<"0">>))}
       \cup {ExecutedQuery(<<JsObject(<<<<"ct", JsBigInt(n)>>>>)>>,
                           JsString(<<"0">>)) : n \in CountValues}
  ELSE {ExecutedQuery([i \in 1..n |-> Row(i)], JsString(<<"0">>)) :
          n \in 0..MaxRows}

\* what the driver rejects with: an Error, or something that is no Error
DriverErrors == {Error(<<"ER_DUP_ENTRY">>), JsString(<<"socket hang up">>)}

(***************************************************************************)
(* The state machine of the runtime: an operation is invoked on the        *)
(* instance, is suspended while connOrTx.execute is awaited, settles when  *)
(* the transport does, and its caller takes the outcome.                   *)
(***************************************************************************)
Operation(op, self, input, rep) ==
  CASE op = "execute" ->
         execute(self, input.query, input.customModelCast, rep)
    [] op = "executeSelect" ->
         executeSelect(self, input.query, input.customModelCast, rep)
    [] op = "executeSelectFirst" ->
         executeSelectFirst(self, input.query, input.customModelCast, rep)
    [] op = "executeSelectFirstOrThrow" ->
         executeSelectFirstOrThrow(self, input.query, input.customModelCast,
                                   rep)
    [] op = "findMany" -> findMany(self, input, rep)
    [] op = "findFirst" -> findFirst(self, input, rep)
    [] op = "findFirstOrThrow" -> findFirstOrThrow(self, input, rep)
    [] op = "findUnique" -> findUnique(self, input, rep)
    [] op = "findUniqueOrThrow" -> findUniqueOrThrow(self, input, rep)
    [] op = "countBigInt" -> countBigInt(self, input, rep)
    [] op = "count" -> count(self, input, rep)
    [] op = "create" -> create(self, input, rep)
    [] op = "updateWhere" -> updateWhere(self, input, rep)
    [] op = "update" -> update(self, input, rep)
    [] op = "deleteWhere" -> deleteWhere(self, input, rep)
    [] op = "delete" -> delete(self, input, rep)

InitDb ==
  /\ column = Tables[1].columns[1]
  /\ settings = NoSettings
  /\ field = <<>>
  /\ fieldDefinition = <<>>
  /\ \E self \in Instances : db = <<self>>
  /\ request = <<>>
  /\ reply = <<>>
  /\ executed = <<>>
  /\ logged = <<>>
  /\ outcome = <<>>
  /\ previous = <<>>
  /\ calls = <<>>
  /\ cli = <<>>

\* the caller invokes op(input): the operation runs up to its await, where
\* it stands as r
Invoke(op, input, r) ==
  /\ Len(request) = 0
  /\ request' = <<[op |-> op, input |-> input]>>
  /\ reply' = <<>>
  /\ executed' = r.executed
  /\ logged' = r.logged
  /\ outcome' = r.outcome
  /\ UNCHANGED <<genVars, db, previous, pairVars, cliVars>>

\* the settlement of an operation that sends its statement again when the
\* transport rejects
Settle_Retries(rep) ==
  /\ Len(request) > 0
  /\ Len(outcome) = 0
  /\ reply' = <<rep>>
  /\ LET r == Operation(request[1].op, db[1], request[1].input, <<rep>>)
     IN /\ executed' = IF rep.kind = "throw" THEN r.executed \o r.executed
                       ELSE r.executed
        /\ logged' = r.logged
        /\ outcome' = r.outcome
  /\ UNCHANGED <<genVars, db, request, previous, pairVars, cliVars>>

\* connOrTx.execute settles with rep: the operation runs to its end
Settle(rep) ==
  /\ Len(request) > 0
  /\ Len(outcome) = 0
  /\ reply' = <<rep>>
  /\ LET r == Operation(request[1].op, db[1], request[1].input, <<rep>>)
     IN /\ executed' = r.executed
        /\ logged' = r.logged
        /\ outcome' = r.outcome
  /\ UNCHANGED <<genVars, db, request, previous, pairVars, cliVars>>

Execute ==
  /\ Len(request) = 0
  /\ \E input \in ExecuteInputs :
       Invoke("execute", input,
              execute(db[1], input.query, input.customModelCast, <<>>))

ExecuteSelect ==
  /\ Len(request) = 0
  /\ \E input \in ExecuteInputs :
       Invoke("executeSelect", input,
              executeSelect(db[1], input.query, input.customModelCast, <<>>))

ExecuteSelectFirst ==
  /\ Len(request) = 0
  /\ \E input \in ExecuteInputs :
       Invoke("executeSelectFirst", input,
              executeSelectFirst(db[1], input.query, input.customModelCast, <<>>))

ExecuteSelectFirstOrThrow ==
  /\ Len(request) = 0
  /\ \E input \in ExecuteInputs :
       Invoke("executeSelectFirstOrThrow", input,
              executeSelectFirstOrThrow(db[1], input.query, input.customModelCast, <<>>))

FindMany ==
  /\ Len(request) = 0
  /\ \E input \in FindInputs(db[1]) :
       Invoke("findMany", input,
              findMany(db[1], input, <<>>))

FindFirst ==
  /\ Len(request) = 0
  /\ \E input \in FindInputs(db[1]) :
       Invoke("findFirst", input,
              findFirst(db[1], input, <<>>))

FindFirstOrThrow ==
  /\ Len(request) = 0
  /\ \E input \in FindInputs(db[1]) :
       Invoke("findFirstOrThrow", input,
              findFirstOrThrow(db[1], input, <<>>))

FindUnique ==
  /\ Len(request) = 0
  /\ \E input \in FindInputs(db[1]) :
       Invoke("findUnique", input,
              findUnique(db[1], input, <<>>))

FindUniqueOrThrow ==
  /\ Len(request) = 0
  /\ \E input \in FindInputs(db[1]) :
       Invoke("findUniqueOrThrow", input,
              findUniqueOrThrow(db[1], input, <<>>))

CountBigInt ==
  /\ Len(request) = 0
  /\ \E input \in CountInputs(db[1]) :
       Invoke("countBigInt", input,
              countBigInt(db[1], input, <<>>))

Count ==
  /\ Len(request) = 0
  /\ \E input \in CountInputs(db[1]) :
       Invoke("count", input,
              count(db[1], input, <<>>))

Create ==
  /\ Len(request) = 0
  /\ \E input \in CreateInputs(db[1]) :
       Invoke("create", input,
              create(db[1], input, <<>>))

UpdateWhere ==
  /\ Len(request) = 0
  /\ \E input \in UpdateWhereInputs(db[1]) :
       Invoke("updateWhere", input,
              updateWhere(db[1], input, <<>>))

Update ==
  /\ Len(request) = 0
  /\ \E input \in UpdateInputs(db[1]) :
       Invoke("update", input,
              update(db[1], input, <<>>))

DeleteWhere ==
  /\ Len(request) = 0
  /\ \E input \in DeleteWhereInputs(db[1]) :
       Invoke("deleteWhere", input,
              deleteWhere(db[1], input, <<>>))

Delete ==
  /\ Len(request) = 0
  /\ \E input \in DeleteInputs(db[1]) :
       Invoke("delete", input,
              delete(db[1], input, <<>>))

TransportResolves ==
  /\ Len(executed) > 0
  /\ \E res \in Results(executed[Len(executed)]) :
       Settle([kind |-> "return", value |-> res])

TransportRejects ==
  \E error \in DriverErrors : Settle([kind |-> "throw", value |-> error])

\* a caller taking a failure on an instance that then goes without loggers
TakeOutcome_DropsLoggers ==
  /\ Len(request) > 0
  /\ Len(outcome) > 0
  /\ request' = <<>>
  /\ reply' = <<>>
  /\ executed' = <<>>
  /\ logged' = <<>>
  /\ outcome' = <<>>
  /\ previous' = <<outcome[1].kind>>
  /\ db' = IF outcome[1].kind = "throw"
           THEN <<[db[1] EXCEPT !.loggingOptions = NoLogging]>> ELSE db
  /\ UNCHANGED <<genVars, pairVars, cliVars>>

\* the caller takes what the operation settled with, a result or a failure;
\* the instance is ready for the next operation
TakeOutcome ==
  /\ Len(request) > 0
  /\ Len(outcome) > 0
  /\ request' = <<>>
  /\ reply' = <<>>
  /\ executed' = <<>>
  /\ logged' = <<>>
  /\ outcome' = <<>>
  /\ previous' = <<outcome[1].kind>>
  /\ UNCHANGED <<genVars, db, pairVars, cliVars>>

NextDb ==
  \/ Execute
  \/ ExecuteSelect
  \/ ExecuteSelectFirst
  \/ ExecuteSelectFirstOrThrow
  \/ FindMany
  \/ FindFirst
  \/ FindFirstOrThrow
  \/ FindUnique
  \/ FindUniqueOrThrow
  \/ CountBigInt
  \/ Count
  \/ Create
  \/ UpdateWhere
  \/ Update
  \/ DeleteWhere
  \/ Delete
  \/ TransportResolves
  \/ TransportRejects
  \/ TakeOutcome

SpecDb == InitDb /\ [][NextDb]_vars

(***************************************************************************)
(* The finders                                                             *)
(***************************************************************************)
\* the operations that end in findMany
FindOps ==
  {"findMany", "findFirst", "findFirstOrThrow", "findUnique",
   "findUniqueOrThrow"}

\* the positions of select that name no field of the model
UnknownSelected(self, select) ==
  IF select.type = "array"
  THEN {j \in 1..Len(select.value) : ~includes(keys(self), select.value[j])}
  ELSE {}

\* C12: findMany (alone or under findFirst, findUnique and their OrThrow
\* variants) given a select list with a name that is no field of the model
\* settles with the validation error naming the first such name, and
\* connOrTx.execute has not been called for the request, whatever where,
\* orderBy and paging are.
C12_InvalidSelect ==
  \A i \in 1..Len(request) :
    (/\ request[i].op \in FindOps
     /\ UnknownSelected(db[1], request[i].input.select) # {})
    => LET select == request[i].input.select.value
           first == select[Min(UnknownSelected(db[1], request[i].input.select))]
       IN /\ executed = <<>>
          /\ Len(outcome) = 1
          /\ outcome[1].kind = "throw"
          /\ outcome[1].value.type = "Error"
          /\ outcome[1].value.value =
               <<"Invalid select: the field named ", first, " does not exist.">>

C12_Witness ==
  /\ Len(request) = 1
  /\ request[1].op = "findMany"
  /\ UnknownSelected(db[1], request[1].input.select) # {}
  /\ IsSql(request[1].input.where)
  /\ request[1].input.orderBy.type = "object"
  /\ request[1].input.paging.type = "object"
  /\ Len(outcome) = 1
  /\ outcome[1].kind = "throw"
  /\ executed = <<>>

\* the finders that delegate to findFirst
FirstOps == FindOps \ {"findMany"}

\* the input of a finder with the paging replaced by { page: 1, rpp: 1 }
FirstPage(input) == [input EXCEPT !.paging = Paging(1, 1)]

\* C13: the call findFirst, findFirstOrThrow, findUnique and
\* findUniqueOrThrow make of connOrTx.execute is the call findMany makes for
\* the same where, orderBy and select with paging { page: 1, rpp: 1 }, also
\* when the input has a paging of its own; when findMany resolves with rows
\* for that call, the finder resolves with the first of them.
C13_FirstIsFindManyPageOne ==
  \A i \in 1..Len(request) :
    request[i].op \in FirstOps =>
      LET input == request[i].input
          many == findMany(db[1], FirstPage(input), reply)
      IN /\ executed = many.executed
         /\ (/\ Len(many.outcome) = 1
             /\ many.outcome[1].kind = "return"
             /\ Len(many.outcome[1].value) > 0)
            => /\ Len(outcome) = 1
               /\ outcome[1].kind = "return"
               /\ outcome[1].value = many.outcome[1].value[1]

C13_Witness ==
  /\ Len(request) = 1
  /\ request[1].op = "findUnique"
  /\ request[1].input.paging.type = "object"
  /\ request[1].input.paging.page = 2
  /\ request[1].input.paging.rpp = 10
  /\ Len(executed) = 1
  /\ executed[1].values[Len(executed[1].values) - 1] = JsNumber(1)
  /\ executed[1].values[Len(executed[1].values)] = JsNumber(0)
  /\ Len(reply) = 1
  /\ reply[1].kind = "return"
  /\ Len(reply[1].value.rows) = 2
  /\ Len(outcome) = 1
  /\ outcome[1].kind = "return"
  /\ outcome[1].value.type = "object"
  /\ outcome[1].value.value = reply[1].value.rows[1].value

\* the rows connOrTx.execute resolved with and execute handed on: none when
\* the transport rejected or the performance logger threw
RowsReturned ==
  IF /\ Len(reply) = 1
     /\ reply[1].kind = "return"
     /\ db[1].loggingOptions.performanceLogger # "throws"
  THEN <<reply[1].value.rows>> ELSE <<>>

\* the error of the OrThrow variants when no record is found
IsNotFound(o, name) ==
  /\ o.kind = "throw"
  /\ o.value.type = "Error"
  /\ o.value.value = <<name \o " failed to find a record.">>

\* C14: when the statement gives no row, findFirst and findUnique (and
\* executeSelectFirst) resolve with null, while findFirstOrThrow and
\* findUniqueOrThrow (and executeSelectFirstOrThrow) reject with the
\* not-found error; when it gives at least one row, all of them resolve
\* with the first row.
C14_FirstOrNullOrThrow ==
  \A i \in 1..Len(request) :
    (/\ request[i].op \in FirstOps \cup {"executeSelectFirst",
                                         "executeSelectFirstOrThrow"}
     /\ Len(RowsReturned) = 1)
    => LET op == request[i].op
           rows == RowsReturned[1]
       IN /\ Len(outcome) = 1
          /\ Len(rows) > 0 =>
               /\ outcome[1].kind = "return"
               /\ outcome[1].value.type = "object"
               /\ outcome[1].value = rows[1]
          /\ (Len(rows) = 0 /\ op \in {"findFirst", "findUnique",
                                       "executeSelectFirst"}) =>
               /\ outcome[1].kind = "return"
               /\ outcome[1].value.type = "null"
          /\ (Len(rows) = 0 /\ op \in {"findFirstOrThrow",
                                       "findUniqueOrThrow"}) =>
               IsNotFound(outcome[1], "findFirstOrThrow")
          /\ (Len(rows) = 0 /\ op = "executeSelectFirstOrThrow") =>
               IsNotFound(outcome[1], "executeSelectFirstOrThrow")

C14_Witness ==
  /\ Len(request) = 1
  /\ request[1].op = "findUniqueOrThrow"
  /\ Len(RowsReturned) = 1
  /\ Len(RowsReturned[1]) = 0
  /\ Len(outcome) = 1
  /\ IsNotFound(outcome[1], "findFirstOrThrow")

(***************************************************************************)
(* count and countBigInt                                                   *)
(***************************************************************************)
\* the value the statement counted, in limbs: ct of the first row, 0 when
\* the result has no row
Counted(rows) == IF Len(rows) > 0 THEN Get(rows[1], "ct").value ELSE <<0, 0>>

\* the error of count
IsOverflow(o) ==
  /\ o.kind = "throw"
  /\ o.value.type = "Error"
  /\ o.value.value =
       <<"count returned a number greater than Number.MAX_SAFE_INTEGER">>

\* C15: count rejects with the overflow error exactly when the counted value
\* is greater than 2^53 - 1 and otherwise resolves with the number of the
\* same value as the bigint countBigInt resolves with; countBigInt never
\* rejects with the overflow error and resolves with 0n when the result has
\* no row.
C15_CountOverflow ==
  \A i \in 1..Len(request) :
    (request[i].op \in {"count", "countBigInt"} /\ Len(RowsReturned) = 1)
    => LET ct == Counted(RowsReturned[1])
           big == countBigInt(db[1], request[i].input, reply).outcome[1]
       IN /\ Len(outcome) = 1
          /\ big.kind = "return"
          /\ big.value.type = "bigint"
          /\ big.value.value = ct
          /\ request[i].op = "countBigInt" => outcome[1] = big
          /\ request[i].op = "count" =>
               /\ IsOverflow(outcome[1]) <=> ct[1] >= 2 ^ 26
               /\ ct[1] < 2 ^ 26 =>
                    /\ outcome[1].kind = "return"
                    /\ outcome[1].value.type = "number"
                    /\ outcome[1].value.value = big.value.value

C15_Witness ==
  /\ Len(request) = 1
  /\ request[1].op = "count"
  /\ Len(RowsReturned) = 1
  /\ Counted(RowsReturned[1]) = <<2 ^ 26 - 1, 2 ^ 27 - 1>>
  /\ Len(outcome) = 1
  /\ outcome[1].kind = "return"
  /\ outcome[1].value.type = "number"

(***************************************************************************)
(* create and updateWhere                                                  *)
(***************************************************************************)
\* the position of the first token t of a text
IndexOf(text, t) == Min({i \in 1..Len(text) : text[i] = t})

\* the entries of a list written with sep between them; no entry when the
\* list is empty
RECURSIVE SplitAt(_, _)
SplitAt(text, sep) ==
  IF Len(text) = 0 THEN <<>>
  ELSE IF ~includes(text, sep) THEN <<text>>
  ELSE <<SubSeq(text, 1, IndexOf(text, sep) - 1)>>
       \o SplitAt(SubSeq(text, IndexOf(text, sep) + 1, Len(text)), sep)

\* the column list of an INSERT: what stands between ( and ) VALUES
InsertColumns(text) ==
  SplitAt(SubSeq(text, IndexOf(text, "(") + 1, IndexOf(text, "VALUES") - 3),
          ",")

\* the value list of an INSERT: what stands between VALUES ( and the last )
InsertValues(text) ==
  SplitAt(SubSeq(text, IndexOf(text, "VALUES") + 3, Len(text) - 1), ",")

\* C16: the INSERT create gives to connOrTx.execute has one column entry per
\* key of data, in the order of the keys, each the quoted name of its key,
\* and one value entry (a placeholder or NULL) per key at the same position;
\* a field of the model that is no key of data is not in the text; when data
\* has no key both lists are empty.
C16_InsertColumns ==
  \A i \in 1..Len(request) :
    request[i].op = "create" =>
      LET data == request[i].input.data
          names == ObjectKeys(data)
          text == executed[1].sql
          table == tableName(db[1])
      IN /\ Len(executed) = 1
         /\ SubSeq(text, 1, IndexOf(text, "(")) =
              <<"INSERT", " ", "INTO", " ", Backtick, table, Backtick, " ", "(">>
         /\ SubSeq(text, IndexOf(text, "VALUES") - 2,
                   IndexOf(text, "VALUES") + 2) =
              <<")", " ", "VALUES", " ", "(">>
         /\ text[Len(text)] = ")"
         /\ Len(InsertColumns(text)) = Len(names)
         /\ Len(InsertValues(text)) = Len(names)
         /\ \A j \in 1..Len(names) :
              /\ InsertColumns(text)[j] =
                   <<Backtick, table, Backtick, ".",
                     Backtick, escapeBackticks(names[j]), Backtick>>
              /\ InsertValues(text)[j] =
                   IF Get(data, names[j]).type = "null" THEN <<"NULL">>
                   ELSE <<"?">>
         /\ \A f \in {keys(db[1])[j] : j \in 1..Len(keys(db[1]))} :
              ~includes(names, f) => ~includes(text, f)

C16_Witness ==
  /\ Len(request) = 1
  /\ request[1].op = "create"
  /\ ObjectKeys(request[1].input.data) = <<"tags", "id">>
  /\ Len(executed) = 1
  /\ Len(InsertColumns(executed[1].sql)) = 2
  /\ ~includes(executed[1].sql, "prefs")
  /\ Len(outcome) = 1
  /\ outcome[1].kind = "return"

\* the rule of the two encodings, read off a (field, value) pair: <<>> for
\* the NULL literal, <<v>> for the bound value v
Encoded(self, k, v) ==
  IF v.type = "null" THEN <<>>
  ELSE IF includes(jsonKeys(self), k) THEN <<JSON_stringify(v)>>
  ELSE IF includes(setKeys(self), k) /\ v.type = "Set"
  THEN <<JsString(joinWith(v.value, <<",">>))>>
  ELSE <<v>>

\* what a fragment written for one key encodes: <<>> when its text ends in
\* the NULL literal and binds nothing, else the value it binds
EncodedBy(fragment) ==
  IF Len(fragment.values) = 0
  THEN IF Sql_sql(fragment)[Len(Sql_sql(fragment))] = "NULL" THEN <<>>
       ELSE <<JsString(<<"nothing bound, not NULL">>)>>
  ELSE fragment.values

\* C17: for every key and value of data, the value create writes and the
\* assignment updateWhere writes encode the pair alike, by the rule: null is
\* the NULL literal; else a json field binds the JSON text of the value;
\* else a set field given a Set binds its members joined with commas; else
\* the value is bound as it is.
C17_SameEncoding ==
  \A i \in 1..Len(request) :
    request[i].op \in {"create", "updateWhere", "update"} =>
      LET data == request[i].input.data
          names == ObjectKeys(data)
      IN \A j \in 1..Len(names) :
           LET inCreate == EncodedBy(create_insertValue(db[1], data, names[j]))
               inUpdate == EncodedBy(updateWhere_update(db[1], data, names[j]))
               rule == Encoded(db[1], names[j], Get(data, names[j]))
           IN /\ Len(inCreate) = Len(rule)
              /\ Len(inUpdate) = Len(rule)
              /\ Len(rule) = 1 =>
                   /\ inCreate[1].type = rule[1].type
                   /\ inCreate[1].value = rule[1].value
                   /\ inUpdate[1].type = rule[1].type
                   /\ inUpdate[1].value = rule[1].value

\* the bound values of the statement of the request, in the order of the
\* keys of data, are the encodings of the rule
C17_Witness ==
  /\ Len(request) = 1
  /\ request[1].op = "updateWhere"
  /\ ObjectKeys(request[1].input.data) = <<"tags", "prefs">>
  /\ Get(request[1].input.data, "tags").type = "Set"
  /\ Get(request[1].input.data, "prefs").type = "Set"
  /\ Len(executed) = 1
  /\ executed[1].values[1].type = "string"
  /\ executed[1].values[1].value = <<"a", ",", "b">>
  /\ executed[1].values[2].type = "string"
  /\ executed[1].values[2].value = <<"{", "}">>

\* a === b on two values
Same(a, b) == a.type = b.type /\ a.value = b.value

\* the primary key made of the single field that is both the primary key of
\* the model and auto_increment: <<name>>, or <<>> when there is none
SingleAutoIncrementKey(self) ==
  LET pks == SelectSeq(fields(self), LAMBDA f : f.isPrimaryKey)
  IN IF Len(pks) = 1 /\ pks[1].isAutoIncrement THEN <<pks[1].fieldName>>
     ELSE <<>>

\* C18: the object a successful create resolves with has exactly the
\* primary-key fields of the model as its keys; when the model has a single
\* auto-increment primary key its value is the insertId of the statement,
\* and in every other case each value is the one given in data; an
\* auto-increment column outside the primary key changes nothing.
C18_PrimaryKeyReturned ==
  \A i \in 1..Len(request) :
    (/\ request[i].op = "create"
     /\ Len(outcome) = 1
     /\ outcome[1].kind = "return")
    => LET pks == primaryKeys(db[1])
           single == SingleAutoIncrementKey(db[1])
           data == request[i].input.data
           returned == outcome[1].value
       IN /\ returned.type = "object"
          /\ ObjectKeys(returned) = pks
          /\ \A j \in 1..Len(pks) :
               Same(Get(returned, pks[j]),
                    IF Len(single) = 1 THEN reply[1].value.insertId
                    ELSE Get(data, pks[j]))

(***************************************************************************)
(* Failures of the transport                                               *)
(***************************************************************************)
\* C19: when connOrTx.execute rejects, what the caller of execute, and of
\* every operation built on it, receives is one and the same generic error,
\* whatever the statement text, the bound values and the driver error are:
\* an Error with the message "Internal server error." that carries nothing
\* else.
C19_OpaqueFailure ==
  \A i \in 1..Len(request) :
    (Len(reply) = 1 /\ reply[1].kind = "throw")
    => /\ Len(outcome) = 1
       /\ outcome[1].kind = "throw"
       /\ DOMAIN outcome[1].value = {"type", "value"}
       /\ outcome[1].value.type = "Error"
       /\ outcome[1].value.value = <<"Internal server error.">>

(***************************************************************************)
(* Values are bound, never written into the text                           *)
(***************************************************************************)
\* the operations that take data, and those that take a where
DataOps == {"create", "updateWhere", "update"}
WhereOps ==
  FindOps \cup {"countBigInt", "count", "updateWhere", "update",
                "deleteWhere", "delete"}

\* is v a mapping of fields to values (not a fragment, not undefined)
IsMapping(v) == ~IsSql(v) /\ v.type = "object"

\* a mapping with every value that is not null replaced by another one
Blind(o) ==
  JsObject([j \in 1..Len(o.value) |->
              <<o.value[j][1],
                IF o.value[j][2].type = "null" THEN JsNull
                ELSE JsString(<<"other">>)>>])

\* the input of an operation with the values of data and of a where mapping
\* replaced
BlindInput(op, input) ==
  LET d == IF op \in DataOps THEN [input EXCEPT !.data = Blind(input.data)]
           ELSE input
  IN IF op \in WhereOps /\ IsMapping(input.where)
     THEN [d EXCEPT !.where = Blind(input.where)] ELSE d

RECURSIVE Concat(_)
Concat(seqs) == IF Len(seqs) = 0 THEN <<>> ELSE seqs[1] \o Concat(Tail(seqs))

\* the values data binds: the encoding of every value that is not null, in
\* the order of the keys
DataBound(self, data) ==
  Concat([j \in 1..Len(data.value) |->
            Encoded(self, data.value[j][1], data.value[j][2])])

\* the values a where binds: those of the mapping, or those of the fragment
WhereBound(where) ==
  IF IsSql(where) THEN where.values
  ELSE IF where.type = "object" THEN [j \in 1..Len(where.value) |->
                                        where.value[j][2]]
  ELSE <<>>

\* the number of tokens t in a text
Count_(text, t) == Cardinality({j \in 1..Len(text) : text[j] = t})

\* C20: every value given in data (create, updateWhere, update) or in a
\* where mapping is handed to connOrTx.execute in the list of bound values
\* and the statement text does not depend on it: the text is the one built
\* for any other values. The text has one NULL per null value of data and no
\* other, and the select of a finder is * exactly when no select list is
\* given.
C20_ValuesBound ==
  \A i \in 1..Len(request) :
    (request[i].op \in DataOps \cup WhereOps /\ Len(executed) = 1)
    => LET op == request[i].op
           input == request[i].input
           text == executed[1].sql
           values == executed[1].values
           blind == Operation(op, db[1], BlindInput(op, input), <<>>).executed
           data == IF op \in DataOps THEN DataBound(db[1], input.data)
                   ELSE <<>>
           where == IF op \in WhereOps THEN WhereBound(input.where) ELSE <<>>
       IN /\ Len(blind) = 1
          /\ text = blind[1].sql
          /\ Len(values) >= Len(data) + Len(where)
          /\ SubSeq(values, 1, Len(data) + Len(where)) = data \o where
          /\ op \notin FindOps => Len(values) = Len(data) + Len(where)
          /\ op \in DataOps =>
               Count_(text, "NULL") =
                 Cardinality({j \in 1..Len(input.data.value) :
                                input.data.value[j][2].type = "null"})
          /\ op \notin DataOps => Count_(text, "NULL") = 0
          /\ op \in FindOps =>
               (includes(text, "*")
                  <=> ~(\/ (input.select.type = "array"
                            /\ Len(input.select.value) > 0)
                        \/ (input.select.type = "string"
                            /\ input.select.value = <<"all">>)))

C20_Witness ==
  /\ Len(request) = 1
  /\ request[1].op = "updateWhere"
  /\ IsMapping(request[1].input.where)
  /\ Len(request[1].input.data.value) = 2
  /\ request[1].input.data.value[1][2].type = "null"
  /\ request[1].input.data.value[2][2].type = "string"
  /\ Len(executed) = 1
  /\ Len(executed[1].values) = 2
  /\ executed[1].values[1].type = "string"
  /\ executed[1].values[1].value = <<"x">>
  /\ ~includes(executed[1].sql, "x")
  /\ Count_(executed[1].sql, "NULL") = 1

(***************************************************************************)
(* The cast function: what createCastFunction does to the text of a        *)
(* column, by the cast type of the field                                   *)
(***************************************************************************)
\* the members of a sequence, each once, in the order of their first place
Distinct(members) ==
  LET first == {i \in 1..Len(members) :
                  \A j \in 1..(i - 1) : members[j] # members[i]}
      place(n) == CHOOSE i \in first : Cardinality({j \in first : j < i}) = n - 1
  IN [n \in 1..Cardinality(first) |-> members[place(n)]]

\* set: new Set(text.split(","))
castSet(text) == JsSet(Distinct(split(text.value)))

\* the value of a numeral
RECURSIVE ParseInt(_)
ParseInt(digits) ==
  IF Len(digits) = 0 THEN 0
  ELSE 10 * ParseInt(SubSeq(digits, 1, Len(digits) - 1))
       + (CHOOSE d \in 0..9 : Digits[d + 1] = digits[Len(digits)])

\* JSON.parse of the text of a string or a number
JSON_parseScalar(text) ==
  IF text[1] = "\"" THEN JsString(SubSeq(text, 2, Len(text) - 1))
  ELSE JsNumber(ParseInt(text))

\* the elements between the brackets of an array of strings and numbers: the
\* text is cut at the commas that stand outside a string
RECURSIVE JSON_parseElements(_)
JSON_parseElements(text) ==
  LET outside == {i \in 1..Len(text) :
                    /\ text[i] = ","
                    /\ Cardinality({j \in 1..i : text[j] = "\""}) % 2 = 0}
  IN IF Len(text) = 0 THEN <<>>
     ELSE IF outside = {} THEN <<JSON_parseScalar(text)>>
     ELSE <<JSON_parseScalar(SubSeq(text, 1, Min(outside) - 1))>>
          \o JSON_parseElements(SubSeq(text, Min(outside) + 1, Len(text)))

\* json: JSON.parse(text), for the texts JSON_stringify writes
JSON_parse(text) ==
  IF text.value = <<"{", "}">> THEN JsObject(<<>>)
  ELSE IF text.value[1] = "["
  THEN JsArray(JSON_parseElements(SubSeq(text.value, 2, Len(text.value) - 1)))
  ELSE JSON_parseScalar(text.value)

\* the cast of the text of a column by the cast type of its field
cast(castType, text) ==
  IF text.type = "null" THEN JsNull
  ELSE IF castType = "json" THEN JSON_parse(text)
  ELSE IF castType = "set" THEN castSet(text)
  ELSE text

\* equality of two values: of structure for arrays, of members for sets
RECURSIVE Equal(_, _)
Equal(a, b) ==
  /\ a.type = b.type
  /\ IF a.type = "array"
     THEN /\ Len(a.value) = Len(b.value)
          /\ \A i \in 1..Len(a.value) : Equal(a.value[i], b.value[i])
     ELSE IF a.type = "Set"
     THEN {a.value[i] : i \in 1..Len(a.value)}
            = {b.value[i] : i \in 1..Len(b.value)}
     ELSE a.value = b.value

\* is v a value of the type of a field of the cast type
OfFieldType(castType, v) ==
  \/ castType = "json" /\ v.type \in {"string", "number", "array"}
  \/ castType = "set" /\ v.type = "Set"

\* the cast type of the field named k: <<>> when k names no field
CastTypeOf(self, k) ==
  IF includes(jsonKeys(self), k) THEN <<"json">>
  ELSE IF includes(setKeys(self), k) THEN <<"set">>
  ELSE <<>>

\* C21: for a json field and a set field, the text create and updateWhere
\* bind for a value of the type of the field (not null), cast back by the
\* cast type of the field, is a value equal to the one given: the same
\* structure for json, the same members for a set, the empty set and sets of
\* any members included.
C21_RoundTrip ==
  \A i \in 1..Len(request) :
    request[i].op \in {"create", "updateWhere", "update"} =>
      LET data == request[i].input.data
          names == ObjectKeys(data)
      IN \A j \in 1..Len(names) :
           LET v == Get(data, names[j])
               type == CastTypeOf(db[1], names[j])
           IN (Len(type) = 1 /\ OfFieldType(type[1], v)) =>
                /\ Equal(cast(type[1],
                              create_insertValue(db[1], data, names[j]).values[1]),
                         v)
                /\ Equal(cast(type[1],
                              updateWhere_update(db[1], data, names[j]).values[1]),
                         v)

(***************************************************************************)
(* The logging hooks                                                       *)
(***************************************************************************)
\* the hooks invoked for the request, in the order of their invocation
Invoked == [i \in 1..Len(logged) |-> logged[i].logger]

\* is e the ExecuteError made of the error and of the statement handed to
\* the transport
IsExecuteErrorOf(e, error, call) ==
  /\ e.type = "ExecuteError"
  /\ Same(e.originalError, error)
  /\ Sql_sql(e.query) = call.sql
  /\ e.query.values = call.values

\* C22: when connOrTx.execute rejects, the error logger has been invoked
\* exactly once, with an ExecuteError holding the error of the transport and
\* the statement, by the time the caller has its failure, and the
\* performance logger has not been invoked; when connOrTx.execute resolves,
\* the performance logger has been invoked exactly once, with the result,
\* and the error logger has not been invoked.
C22_HooksOnce ==
  \A i \in 1..Len(request) :
    Len(reply) = 1 =>
      /\ Len(outcome) = 1
      /\ reply[1].kind = "throw" =>
           /\ Invoked = <<"errorLogger">>
           /\ IsExecuteErrorOf(logged[1].args[1], reply[1].value, executed[1])
      /\ reply[1].kind = "return" =>
           /\ Invoked = <<"performanceLogger">>
           /\ logged[1].args[1] = reply[1].value

(***************************************************************************)
(* The instance                                                            *)
(***************************************************************************)
\* an instance constructed anew on what the instance self holds
Fresh(self) ==
  ModelDb(self.model.modelName, self.connOrTx, self.schema,
          self.loggingOptions)

\* have two operations settled alike
SameOutcome(a, b) ==
  /\ Len(a) = Len(b)
  /\ Len(a) = 1 => (a[1].kind = b[1].kind /\ a[1].value = b[1].value)

\* C23: no step of an operation, ended with a result or with a failure
\* (validation error, not-found, overflow, failure of the transport),
\* changes the transport handle, the schema, the model or the logging
\* options of the instance, and the operation invoked next calls
\* connOrTx.execute and settles as it does on an instance constructed anew.
C23_InstanceUnchanged ==
  [][/\ db' = db
     /\ Len(request') = 1 =>
          LET fresh == Operation(request'[1].op, Fresh(db[1]),
                                 request'[1].input, reply')
          IN /\ executed' = fresh.executed
             /\ logged' = fresh.logged
             /\ SameOutcome(outcome', fresh.outcome)]_vars

\* an operation invoked after one that failed has settled
C23_Witness ==
  /\ previous = <<"throw">>
  /\ Len(request) = 1
  /\ request[1].op = "create"
  /\ Len(executed) = 1
  /\ Len(outcome) = 1
  /\ outcome[1].kind = "return"

(***************************************************************************)
(* Operations started together on one instance: each runs up to its        *)
(* await of connOrTx.execute when it is started, and from there to its end *)
(* when the transport settles its call, in any order.                      *)
(***************************************************************************)
\* how many operations are in flight together
MaxCalls == 2

\* the instances operations are started together on
PairInstances ==
  {ModelDb("Users", "conn", Schema, l) :
     l \in {NoLogging,
            [performanceLogger |-> "returns", errorLogger |-> "returns"]}}

PairCreateInputs ==
  {[data |-> JsObject(<<<<"id", JsString(<<"x">>)>>>>)],
   [data |-> JsObject(<<<<"tags", JsSet(<<<<"a">>, <<"b">>>>)>>,
                        <<"prefs", JsNull>>>>)]}

PairCountInputs ==
  {[where |-> JsObject(<<<<"id", JsString(<<"x">>)>>>>)]}

PairFindInputs ==
  {[where |-> JsObject(<<<<"id", JsString(<<v>>)>>>>),
    orderBy |-> JsUndefined, paging |-> JsUndefined, select |-> JsUndefined] :
     v \in {"x", "y"}}

\* the results the database gives to a call started with others
PairResults(call) ==
  IF call.sql[1] = "INSERT"
  THEN {ExecutedQuery(<<>>, JsString(<<id>>)) : id \in {"41", "42"}}
  ELSE IF includes(call.sql, "COUNT")
  THEN {ExecutedQuery(<<JsObject(<<<<"ct", JsBigInt(n)>>>>)>>,
                      JsString(<<"0">>)) : n \in {<<0, 1>>, <<2 ^ 26, 0>>}}
  ELSE {ExecutedQuery([i \in 1..n |-> Row(i)], JsString(<<"0">>)) :
          n \in 0..1}

InitPair ==
  /\ column = Tables[1].columns[1]
  /\ settings = NoSettings
  /\ field = <<>>
  /\ fieldDefinition = <<>>
  /\ \E self \in PairInstances : db = <<self>>
  /\ request = <<>>
  /\ reply = <<>>
  /\ executed = <<>>
  /\ logged = <<>>
  /\ outcome = <<>>
  /\ previous = <<>>
  /\ calls = <<>>
  /\ cli = <<>>

\* op(input) is started while the operations of calls are in flight: it runs
\* up to its await, where it stands as r
PairStart(op, input, r) ==
  /\ Len(calls) < MaxCalls
  /\ calls' = Append(calls, [op |-> op, input |-> input, reply |-> <<>>,
                             executed |-> r.executed, logged |-> r.logged,
                             outcome |-> r.outcome])
  /\ UNCHANGED <<genVars, dbVars, cliVars>>

\* the continuation of an operation that reads the input of the operation
\* started last
PairSettle_LastInput(i, rep) ==
  /\ Len(calls[i].outcome) = 0
  /\ LET r == Operation(calls[i].op, db[1], calls[Len(calls)].input, <<rep>>)
     IN calls' = [calls EXCEPT ![i].reply = <<rep>>,
                               ![i].executed = r.executed,
                               ![i].logged = r.logged,
                               ![i].outcome = r.outcome]
  /\ UNCHANGED <<genVars, dbVars, cliVars>>

\* connOrTx.execute settles the call of the operation i with rep: the
\* operation runs to its end
PairSettle(i, rep) ==
  /\ Len(calls[i].outcome) = 0
  /\ LET r == Operation(calls[i].op, db[1], calls[i].input, <<rep>>)
     IN calls' = [calls EXCEPT ![i].reply = <<rep>>,
                               ![i].executed = r.executed,
                               ![i].logged = r.logged,
                               ![i].outcome = r.outcome]
  /\ UNCHANGED <<genVars, dbVars, cliVars>>

PairCreate ==
  /\ Len(calls) < MaxCalls
  /\ \E input \in PairCreateInputs :
       PairStart("create", input, create(db[1], input, <<>>))

PairCount ==
  /\ Len(calls) < MaxCalls
  /\ \E input \in PairCountInputs :
       PairStart("count", input, count(db[1], input, <<>>))

PairFindFirstOrThrow ==
  /\ Len(calls) < MaxCalls
  /\ \E input \in PairFindInputs :
       PairStart("findFirstOrThrow", input,
                 findFirstOrThrow(db[1], input, <<>>))

PairTransportResolves ==
  \E i \in 1..Len(calls) :
    \E res \in PairResults(calls[i].executed[1]) :
      PairSettle(i, [kind |-> "return", value |-> res])

PairTransportRejects ==
  \E i \in 1..Len(calls) :
    PairSettle(i, [kind |-> "throw", value |-> Error(<<"ER_DUP_ENTRY">>)])

NextPair ==
  \/ PairCreate
  \/ PairCount
  \/ PairFindFirstOrThrow
  \/ PairTransportResolves
  \/ PairTransportRejects

SpecPair == InitPair /\ [][NextPair]_vars

\* C24: of operations started together on one instance and settled in any
\* order, each hands connOrTx.execute the statement and the values of its
\* own input, and settles with the result or the failure that its own input
\* and the settlement of its own call give; nothing of it depends on the
\* other operations or on which call was settled first.
C24_Independent ==
  \A i \in 1..Len(calls) :
    LET own == Operation(calls[i].op, Fresh(db[1]), calls[i].input,
                         calls[i].reply)
    IN /\ calls[i].executed = own.executed
       /\ calls[i].logged = own.logged
       /\ SameOutcome(calls[i].outcome, own.outcome)

\* two creates in flight together, the one started last settled first
C24_Witness ==
  /\ Len(calls) = 2
  /\ calls[1].op = "create"
  /\ calls[2].op = "create"
  /\ calls[1].input # calls[2].input
  /\ Len(calls[1].outcome) = 0
  /\ Len(calls[2].outcome) = 1
  /\ calls[2].outcome[1].kind = "return"

\* the override an operation hands to execute: count and countBigInt read
\* the column ct as bigint, every other operation gives none
Override(op) ==
  IF op \in {"count", "countBigInt"} THEN <<[ct |-> "bigint"]>> ELSE <<>>

\* the override the cast function of a transport call was built from
OverrideOf(call) ==
  IF call.options.cast.customModelCast = JsUndefined THEN <<>>
  ELSE <<call.options.cast.customModelCast>>

\* C25: every transport call is handed a cast function built for that call
\* from the cast map of the schema and the override of its own operation:
\* the override of a count (ct as bigint) is in the cast function of the
\* count only, and an operation started while the count is in flight or
\* after it has settled gets a cast function without it.
C25_OverridePerCall ==
  \A i \in 1..Len(calls) :
    \A k \in 1..Len(calls[i].executed) :
      /\ calls[i].executed[k].options.cast.schemaCast = db[1].schema.cast
      /\ OverrideOf(calls[i].executed[k]) = Override(calls[i].op)

\* a count has settled with its override, and the find started after it has
\* been handed a cast function without override
C25_Witness ==
  /\ Len(calls) = 2
  /\ calls[1].op = "count"
  /\ Len(calls[1].outcome) = 1
  /\ OverrideOf(calls[1].executed[1]) = <<[ct |-> "bigint"]>>
  /\ calls[2].op = "findFirstOrThrow"
  /\ Len(calls[2].reply) = 0
  /\ Len(calls[2].executed) = 1
  /\ OverrideOf(calls[2].executed[1]) = <<>>

(***************************************************************************)
(* The commands of the command line: cmdGenerate and cmdFetch, a step for  *)
(* every await of theirs.  Loading the settings, fetching the schema and   *)
(* writing files are done by collaborators, whose answers are chosen here; *)
(* the model definitions are resolved by parseModelDefinition.             *)
(***************************************************************************)
\* how many tables the fetched schema has
MaxTables == 2

\* the errors getSettings reports
SettingsErrors == {<<>>, <<"databaseUrl">>}

CliSettings ==
  {NoSettings,
   [typeBigIntAsString |-> "false", typeTinyIntOneAsBoolean |-> "false"]}

\* a table of the fetched schema; one whose columns are not an array makes
\* table.columns.map of parseModelDefinition throw
FetchedTables ==
  [table : {Tables[1], Tables[2]}, columns : {"array", "undefined"}]

FetchedSchemas ==
  UNION {[1..n -> FetchedTables] : n \in 0..MaxTables}

\* schema.tables.map((t) => parseModelDefinition(t, settings))
parsedModels(tables, conf) ==
  LET thrown == {i \in 1..Len(tables) : tables[i].columns = "undefined"}
  IN IF thrown # {}
     THEN Throw(TypeError(<<"Cannot read properties of undefined">>))
     ELSE Return([i \in 1..Len(tables) |->
                    parseModelDefinition(tables[i].table, conf)])

InitCli ==
  /\ column = Tables[1].columns[1]
  /\ settings = NoSettings
  /\ field = <<>>
  /\ fieldDefinition = <<>>
  /\ db = <<>>
  /\ request = <<>>
  /\ reply = <<>>
  /\ executed = <<>>
  /\ logged = <<>>
  /\ outcome = <<>>
  /\ previous = <<>>
  /\ calls = <<>>
  /\ \E command \in {"generate", "fetch"} :
       cli = <<[command |-> command, at |-> "getSettings",
                settings |-> NoSettings, errors |-> <<>>,
                fetched |-> <<>>, parsedModels |-> <<>>,
                written |-> <<>>]>>

\* the command goes from one await to the next
CliStep(command, at, next) ==
  /\ cli[1].command = command
  /\ cli[1].at = at
  /\ cli' = <<next>>
  /\ UNCHANGED <<genVars, dbVars, pairVars>>

\* cmdGenerate: getSettings has answered
GenerateSettingsRead ==
  \E conf \in CliSettings, errors \in SettingsErrors :
    CliStep("generate", "getSettings",
            [cli[1] EXCEPT !.settings = conf, !.errors = errors,
                           !.at = IF Len(errors) > 0 THEN "cancelled"
                                  ELSE "fetchDatabaseSchema"])

\* cmdGenerate with the schema files written before the models are resolved
GenerateSchemaFetched_WriteFirst ==
  \E tables \in FetchedSchemas :
    LET parsed == parsedModels(tables, cli[1].settings)
    IN CliStep("generate", "fetchDatabaseSchema",
               [cli[1] EXCEPT !.fetched = <<tables>>,
                              !.written = Append(@, "schema"),
                              !.parsedModels =
                                IF parsed[1].kind = "throw" THEN <<>>
                                ELSE <<parsed[1].value>>,
                              !.at = IF parsed[1].kind = "throw" THEN "thrown"
                                     ELSE "generateCode"])

\* cmdGenerate: fetchDatabaseSchema has answered; the models are resolved and
\* writeCurrentSchema is called
GenerateSchemaFetched ==
  \E tables \in FetchedSchemas :
    LET parsed == parsedModels(tables, cli[1].settings)
    IN CliStep("generate", "fetchDatabaseSchema",
               [cli[1] EXCEPT !.fetched = <<tables>>,
                              !.parsedModels =
                                IF parsed[1].kind = "throw" THEN <<>>
                                ELSE <<parsed[1].value>>,
                              !.at = IF parsed[1].kind = "throw" THEN "thrown"
                                     ELSE "writeCurrentSchema"])

\* cmdGenerate: writeCurrentSchema has written the schema files
GenerateSchemaWritten ==
  CliStep("generate", "writeCurrentSchema",
          [cli[1] EXCEPT !.written = Append(@, "schema"),
                         !.at = "generateCode"])

\* cmdGenerate: generateCode has written the code files
GenerateCodeWritten ==
  CliStep("generate", "generateCode",
          [cli[1] EXCEPT !.written = Append(@, "code"), !.at = "done"])

\* cmdFetch: getSettings has answered; the answer itself is taken for the
\* settings, whatever errors it holds, and has no type setting of its own
FetchSettingsRead ==
  \E errors \in SettingsErrors :
    CliStep("fetch", "getSettings",
            [cli[1] EXCEPT !.settings = NoSettings, !.errors = errors,
                           !.at = "fetchDatabaseSchema"])

\* cmdFetch: fetchDatabaseSchema has answered; writeCurrentSchema is called
FetchSchemaFetched ==
  \E tables \in FetchedSchemas :
    CliStep("fetch", "fetchDatabaseSchema",
            [cli[1] EXCEPT !.fetched = <<tables>>,
                           !.at = "writeCurrentSchema"])

\* cmdFetch: writeCurrentSchema has written the schema files; the models are
\* resolved after it
FetchSchemaWritten ==
  LET parsed == parsedModels(cli[1].fetched[1], cli[1].settings)
  IN CliStep("fetch", "writeCurrentSchema",
             [cli[1] EXCEPT !.written = Append(@, "schema"),
                            !.parsedModels =
                              IF parsed[1].kind = "throw" THEN <<>>
                              ELSE <<parsed[1].value>>,
                            !.at = IF parsed[1].kind = "throw" THEN "thrown"
                                   ELSE "done"])

\* the collaborator a command awaits rejects
CollaboratorRejects ==
  /\ cli[1].at \in {"getSettings", "fetchDatabaseSchema",
                    "writeCurrentSchema", "generateCode"}
  /\ cli' = <<[cli[1] EXCEPT !.at = "thrown"]>>
  /\ UNCHANGED <<genVars, dbVars, pairVars>>

NextCli ==
  \/ GenerateSettingsRead
  \/ GenerateSchemaFetched
  \/ GenerateSchemaWritten
  \/ GenerateCodeWritten
  \/ FetchSettingsRead
  \/ FetchSchemaFetched
  \/ FetchSchemaWritten
  \/ CollaboratorRejects

SpecCli == InitCli /\ [][NextCli]_vars

\* C26: in the generate command a file, of the schema or of the code, is
\* written only after the settings were loaded without errors and the model
\* definition of every fetched table was resolved; with a settings error
\* the schema is not fetched, and with a table that fails to resolve
\* nothing is written.
C26_WritesAfterResolution ==
  cli[1].command = "generate" =>
    /\ Len(cli[1].written) > 0 =>
         /\ cli[1].at \notin {"getSettings"}
         /\ cli[1].errors = <<>>
         /\ Len(cli[1].fetched) = 1
         /\ Len(cli[1].parsedModels) = 1
         /\ Len(cli[1].parsedModels[1]) = Len(cli[1].fetched[1])
         /\ \A i \in 1..Len(cli[1].fetched[1]) :
              cli[1].parsedModels[1][i] =
                parseModelDefinition(cli[1].fetched[1][i].table,
                                     cli[1].settings)
    /\ Len(cli[1].errors) > 0 =>
         /\ cli[1].at = "cancelled"
         /\ cli[1].fetched = <<>>
         /\ cli[1].written = <<>>
    /\ (/\ Len(cli[1].fetched) = 1
        /\ \E i \in 1..Len(cli[1].fetched[1]) :
             cli[1].fetched[1][i].columns = "undefined") =>
         /\ cli[1].at = "thrown"
         /\ cli[1].written = <<>>

\* the generate command has stopped at the second of two fetched tables,
\* which failed to resolve, and has written nothing
C26_Witness ==
  /\ cli[1].command = "generate"
  /\ cli[1].errors = <<>>
  /\ Len(cli[1].fetched) = 1
  /\ Len(cli[1].fetched[1]) = 2
  /\ cli[1].fetched[1][1].columns = "array"
  /\ cli[1].fetched[1][2].columns = "undefined"
  /\ cli[1].at = "thrown"
  /\ cli[1].written = <<>>

\* the operations of ModelDb
ModelDbOps ==
  {"findMany", "findFirst", "findFirstOrThrow", "findUnique",
   "findUniqueOrThrow", "count", "countBigInt", "create", "updateWhere",
   "update", "deleteWhere", "delete"}

\* the statement of op(input) cannot be built: a selected field is unknown,
\* or an update has no key of data to join
BuildFails(op, self, input) ==
  \/ op \in FindOps /\ UnknownSelected(self, input.select) # {}
  \/ op \in {"updateWhere", "update"} /\ Len(ObjectKeys(input.data)) = 0

\* C27: an operation of ModelDb calls connOrTx.execute once when its
\* statement is built and not at all when building fails; it never calls
\* it again, whether the call resolves or rejects; and a create whose call
\* rejects ends with a failure and returns no primary key.
C27_ExecutesAtMostOnce ==
  \A i \in 1..Len(request) :
    request[i].op \in ModelDbOps =>
      /\ Len(executed) <= 1
      /\ BuildFails(request[i].op, db[1], request[i].input) =>
           /\ executed = <<>>
           /\ reply = <<>>
           /\ Len(outcome) = 1
           /\ outcome[1].kind = "throw"
      /\ ~BuildFails(request[i].op, db[1], request[i].input) =>
           Len(executed) = 1
      /\ (/\ request[i].op = "create"
          /\ Len(reply) = 1
          /\ reply[1].kind = "throw") =>
           /\ Len(outcome) = 1
           /\ outcome[1].kind = "throw"

\* the transport has rejected the call of a create: the statement was sent
\* once and the create has failed
C27_Witness ==
  /\ Len(request) = 1
  /\ request[1].op = "create"
  /\ Len(ObjectKeys(request[1].input.data)) = 2
  /\ Len(reply) = 1
  /\ reply[1].kind = "throw"
  /\ Len(executed) = 1
  /\ Len(outcome) = 1
  /\ outcome[1].kind = "throw"

\* what stands between SELECT and FROM in a statement of findMany, split at
\* the commas
SelectColumns(text) ==
  SplitAt(SubSeq(text, IndexOf(text, "SELECT") + 4, IndexOf(text, "FROM") - 4),
          ",")

\* the entry of the column list for a field of the model
SelectEntry(self, f) ==
  <<Backtick, escapeBackticks(tableName(self)), Backtick, ".",
    Backtick, escapeBackticks(f.columnName), Backtick,
    " ", "as", " ", Backtick, escapeBackticks(f.fieldName), Backtick>>

\* C28: findMany with an empty list for select sends the statement of
\* findMany without select, which selects *, and raises no error before the
\* transport is called; the statement has a column list in place of the *
\* only for a list that is not empty and for 'all', and for 'all' the list
\* has one entry for every field of the model, in the order of the model.
C28_EmptySelect ==
  \A i \in 1..Len(request) :
    request[i].op = "findMany" =>
      LET input == request[i].input
          select == input.select
          omitted == findMany(db[1], [input EXCEPT !.select = JsUndefined],
                              <<>>)
          listed == \/ select.type = "array" /\ Len(select.value) > 0
                    \/ select.type = "string" /\ select.value = <<"all">>
      IN /\ (select.type = "array" /\ Len(select.value) = 0) =>
              /\ Len(executed) = 1
              /\ executed = omitted.executed
              /\ Len(reply) = 0 => outcome = <<>>
         /\ Len(executed) = 1 =>
              /\ ~listed => SelectColumns(executed[1].sql) = <<<<"*">>>>
              /\ listed => ~includes(executed[1].sql, "*")
         /\ (select.type = "string" /\ select.value = <<"all">>) =>
              /\ Len(executed) = 1
              /\ SelectColumns(executed[1].sql) =
                   [j \in 1..Len(fields(db[1])) |->
                      SelectEntry(db[1], fields(db[1])[j])]

\* findMany with an empty list for select and a where clause has sent its
\* statement, and the rows have come back
C28_Witness ==
  /\ Len(request) = 1
  /\ request[1].op = "findMany"
  /\ request[1].input.select = JsArray(<<>>)
  /\ request[1].input.where.type = "object"
  /\ Len(executed) = 1
  /\ includes(executed[1].sql, "*")
  /\ includes(executed[1].sql, "WHERE")
  /\ Len(outcome) = 1
  /\ outcome[1].kind = "return"

\* the outcome o is the generic failure of execute
IsInternalServerError(o) ==
  /\ o.kind = "throw"
  /\ DOMAIN o.value = {"type", "value"}
  /\ o.value.type = "Error"
  /\ o.value.value = <<"Internal server error.">>

\* C29: when the transport resolves and the performance logger throws, the
\* error logger is invoked with an ExecuteError of what the performance
\* logger threw and of the statement, and the caller receives the generic
\* failure.
C29_PerformanceLoggerThrows ==
  \A i \in 1..Len(request) :
    (/\ Len(reply) = 1
     /\ reply[1].kind = "return"
     /\ db[1].loggingOptions.performanceLogger = "throws") =>
      /\ Len(executed) = 1
      /\ Invoked = <<"performanceLogger", "errorLogger">>
      /\ IsExecuteErrorOf(logged[2].args[1], LoggerError, executed[1])
      /\ Len(outcome) = 1
      /\ IsInternalServerError(outcome[1])

\* C30: when the transport rejects and the error logger throws, the caller
\* receives what the error logger threw (an error of its own, or the
\* ExecuteError it was handed), not the generic failure; a call that the
\* transport has settled ends with the generic failure only if the error
\* logger is absent or returns.
C30_ErrorLoggerThrows ==
  \A i \in 1..Len(request) :
    Len(reply) = 1 =>
      LET errorLogger == db[1].loggingOptions.errorLogger
      IN /\ Len(outcome) = 1
         /\ (reply[1].kind = "throw" /\ errorLogger = "throws") =>
              /\ outcome[1].kind = "throw"
              /\ DOMAIN outcome[1].value = {"type", "value"}
              /\ outcome[1].value.type = LoggerError.type
              /\ outcome[1].value.value = LoggerError.value
         /\ (reply[1].kind = "throw" /\ errorLogger = "rethrows") =>
              /\ outcome[1].kind = "throw"
              /\ IsExecuteErrorOf(outcome[1].value, reply[1].value,
                                  executed[1])
         /\ IsInternalServerError(outcome[1]) =>
              errorLogger \in {"undefined", "returns"}
         /\ (reply[1].kind = "throw"
             /\ errorLogger \in {"undefined", "returns"}) =>
              IsInternalServerError(outcome[1])

\* the transport has rejected an update, the error logger was handed the
\* failure and threw it back, and the caller has received it
C30_Witness ==
  /\ Len(request) = 1
  /\ request[1].op = "update"
  /\ db[1].loggingOptions.errorLogger = "rethrows"
  /\ Len(reply) = 1
  /\ reply[1].kind = "throw"
  /\ Invoked = <<"errorLogger">>
  /\ Len(outcome) = 1
  /\ outcome[1].kind = "throw"
  /\ outcome[1].value.type = "ExecuteError"

====
